---- MODULE Spec2Model ----
(***************************************************************************)
(* Workbook financial-metrics engine of ba3ai/Clarus: the Period Store     *)
(* (portfolio_period_metrics), its three writers (upload ingestion,        *)
(* SharePoint ingestion, overview persist-on-read), the overview cache and *)
(* the basis window resolver, translated from backend/routes/*.py.         *)
(*                                                                         *)
(* Conventions.  A Python str is a sequence of one-character strings.  A   *)
(* date or a midnight datetime is its day number counted from 1899-12-30   *)
(* (the epoch the code uses for Excel serials).  An Optional value is <<>> *)
(* (None, NaN) or <<v>>.  Money is integral; a ratio is a pair <<n, d>> in *)
(* lowest terms.                                                           *)
(***************************************************************************)
EXTENDS Integers, Sequences, FiniteSets, TLC

(***************************************************************************)
(* Optional values                                                         *)
(***************************************************************************)
None == <<>>
Some(v) == <<v>>

(***************************************************************************)
(* Python str operations                                                   *)
(***************************************************************************)
UpperCase == <<"A","B","C","D","E","F","G","H","I","J","K","L","M","N","O","P","Q","R","S","T","U","V","W","X","Y","Z">>
LowerCase == <<"a","b","c","d","e","f","g","h","i","j","k","l","m","n","o","p","q","r","s","t","u","v","w","x","y","z">>
DigitChars == <<"0","1","2","3","4","5","6","7","8","9">>

IsSpace(c) == c \in {" ", "\t", "\n"}
IsDigit(c) == \E i \in 1..Len(DigitChars) : DigitChars[i] = c
DigitVal(c) == (CHOOSE i \in 1..Len(DigitChars) : DigitChars[i] = c) - 1

LowerChar(c) ==
  IF \E i \in 1..Len(UpperCase) : UpperCase[i] = c
  THEN LowerCase[CHOOSE i \in 1..Len(UpperCase) : UpperCase[i] = c]
  ELSE c

\* str.lower()
lower(s) == [i \in 1..Len(s) |-> LowerChar(s[i])]

\* strip, once keep is known
strip_keep(s, keep) ==
  IF keep = {} THEN <<>>
  ELSE SubSeq(s, CHOOSE i \in keep : \A j \in keep : i <= j,
                 CHOOSE i \in keep : \A j \in keep : i >= j)

\* str.strip()
strip(s) ==
  strip_keep(s,
    {i \in 1..Len(s) : ~IsSpace(s[i])})

\* sub in s
Contains(sub, s) ==
  \E i \in 0..(Len(s) - Len(sub)) : SubSeq(s, i + 1, i + Len(sub)) = sub

\* s.startswith(pre)
StartsWith(s, pre) == Len(pre) <= Len(s) /\ SubSeq(s, 1, Len(pre)) = pre

\* s.replace(c, "") for every character c of a set
RemoveChars(s, cs) == SelectSeq(s, LAMBDA c : c \notin cs)

\* re.sub(r"\s+", " ", s)
RECURSIVE CollapseSpaces(_)
CollapseSpaces(s) ==
  IF s = <<>> THEN <<>>
  ELSE IF IsSpace(Head(s))
       THEN IF Len(s) > 1 /\ IsSpace(s[2])
            THEN CollapseSpaces(Tail(s))
            ELSE <<" ">> \o CollapseSpaces(Tail(s))
       ELSE <<Head(s)>> \o CollapseSpaces(Tail(s))

AllDigits(s) == s # <<>> /\ \A i \in 1..Len(s) : IsDigit(s[i])

RECURSIVE DigitsVal(_)
DigitsVal(s) ==
  IF s = <<>> THEN 0 ELSE 10 * DigitsVal(SubSeq(s, 1, Len(s) - 1)) + DigitVal(s[Len(s)])

\* str(n) of an int
RECURSIVE NatToStr(_)
NatToStr(n) ==
  IF n < 10 THEN <<DigitChars[n + 1]>>
  ELSE NatToStr(n \div 10) \o <<DigitChars[(n % 10) + 1]>>

IntToStr(n) == IF n < 0 THEN <<"-">> \o NatToStr(-n) ELSE NatToStr(n)

\* n zero-padded to w digits ("%02d")
RECURSIVE ZeroPad(_, _)
ZeroPad(s, w) == IF Len(s) >= w THEN s ELSE ZeroPad(<<"0">> \o s, w)

\* pyint, once body is known
pyint_body(t, body) ==
  IF ~AllDigits(body) THEN None
  ELSE IF t[1] = "-" THEN Some(-DigitsVal(body)) ELSE Some(DigitsVal(body))

\* pyint, once t is known
pyint_t(t) ==
  pyint_body(t,
    IF t # <<>> /\ t[1] \in {"-", "+"} THEN Tail(t) ELSE t)

\* int(s): None when s is no decimal integer (ValueError)
pyint(s) ==
  pyint_t(
    strip(s))

\* float(s) of a str holding an integral amount: None when it does not parse
pyfloat(s) == pyint(s)

(***************************************************************************)
(* Calendar: datetime.date, timedelta, calendar.monthrange                 *)
(***************************************************************************)
IsLeap(y) == (y % 4 = 0 /\ y % 100 # 0) \/ y % 400 = 0

\* calendar.monthrange(y, m)[1]
monthrange(y, m) ==
  IF m = 2 THEN (IF IsLeap(y) THEN 29 ELSE 28)
  ELSE IF m \in {4, 6, 9, 11} THEN 30 ELSE 31

ValidDate(y, m, d) == y \in 1..9999 /\ m \in 1..12 /\ d \in 1..monthrange(y, m)

\* date, once doe is known
date_doe(era, doe) ==
  era * 146097 + doe - 693899

\* date, once yoe is known
date_yoe(doy, era, yoe) ==
  date_doe(era,
    yoe * 365 + yoe \div 4 - yoe \div 100 + doy)

\* date, once era, doy are known
date_era(yy, era, doy) ==
  date_yoe(doy, era,
    yy - era * 400)

\* date, once yy, mp are known
date_yy(d, yy, mp) ==
  date_era(yy,
    yy \div 400,
    (153 * mp + 2) \div 5 + d - 1)

\* date(y, m, d) as days since datetime(1899, 12, 30)
date(y, m, d) ==
  date_yy(d,
    IF m <= 2 THEN y - 1 ELSE y,
    IF m > 2 THEN m - 3 ELSE m + 9)

\* Civil, once dd, mm are known
Civil_dd(yoe, era, dd, mm) ==
  [year |-> yoe + era * 400 + (IF mm <= 2 THEN 1 ELSE 0), month |-> mm, day |-> dd]

\* Civil, once mp is known
Civil_mp(doy, yoe, era, mp) ==
  Civil_dd(yoe, era,
    doy - (153 * mp + 2) \div 5 + 1,
    IF mp < 10 THEN mp + 3 ELSE mp - 9)

\* Civil, once doy is known
Civil_doy(yoe, era, doy) ==
  Civil_mp(doy, yoe, era,
    (5 * doy + 2) \div 153)

\* Civil, once yoe is known
Civil_yoe(doe, era, yoe) ==
  Civil_doy(yoe, era,
    doe - (365 * yoe + yoe \div 4 - yoe \div 100))

\* Civil, once doe is known
Civil_doe(era, doe) ==
  Civil_yoe(doe, era,
    (doe - doe \div 1460 + doe \div 36524 - doe \div 146096) \div 365)

\* Civil, once era is known
Civil_era(zz, era) ==
  Civil_doe(era,
    zz - era * 146097)

\* Civil, once zz is known
Civil_zz(zz) ==
  Civil_era(zz,
    zz \div 146097)

\* (year, month, day) of a day number
Civil(z) ==
  Civil_zz(
    z + 693899)

Year(d) == Civil(d).year
Month(d) == Civil(d).month
Day(d) == Civil(d).day

\* date(d.year, d.month, monthrange(d.year, d.month)[1])
MonthEnd(d) == date(Year(d), Month(d), monthrange(Year(d), Month(d)))

IsMonthEnd(d) == Day(d) = monthrange(Year(d), Month(d))

\* d.isoformat() of a date
isoformat(d) ==
  ZeroPad(NatToStr(Year(d)), 4) \o <<"-">> \o ZeroPad(NatToStr(Month(d)), 2)
    \o <<"-">> \o ZeroPad(NatToStr(Day(d)), 2)

\* fromisoformat, once y, m, d are known
fromisoformat_y(y, m, d) ==
  IF ValidDate(y, m, d) THEN Some(date(y, m, d)) ELSE None

\* datetime.fromisoformat(s) for the YYYY-MM-DD form; None on ValueError
fromisoformat(s) ==
  IF Len(s) = 10 /\ s[5] = "-" /\ s[8] = "-"
     /\ AllDigits(SubSeq(s, 1, 4)) /\ AllDigits(SubSeq(s, 6, 7)) /\ AllDigits(SubSeq(s, 9, 10))
  THEN fromisoformat_y(
         DigitsVal(SubSeq(s, 1, 4)),
         DigitsVal(SubSeq(s, 6, 7)),
         DigitsVal(SubSeq(s, 9, 10)))
  ELSE None

(***************************************************************************)
(* datetime.strptime                                                       *)
(***************************************************************************)
MonthAbbr == <<<<"j","a","n">>, <<"f","e","b">>, <<"m","a","r">>, <<"a","p","r">>, <<"m","a","y">>, <<"j","u","n">>,
               <<"j","u","l">>, <<"a","u","g">>, <<"s","e","p">>, <<"o","c","t">>, <<"n","o","v">>, <<"d","e","c">>>>

NumericDirectives == {"%d", "%m", "%Y", "%y", "%H", "%M", "%S"}

\* the widths the directive's regular expression tries, in its order
DirectiveWidths(tok) ==
  IF tok = "%Y" THEN <<4>> ELSE IF tok = "%y" THEN <<2>> ELSE <<2, 1>>

DirectiveOk(tok, w, n) ==
  CASE tok = "%d" -> IF w = 2 THEN n \in 1..31 ELSE n \in 1..9
    [] tok = "%m" -> IF w = 2 THEN n \in 1..12 ELSE n \in 1..9
    [] tok = "%H" -> IF w = 2 THEN n \in 0..23 ELSE TRUE
    [] tok = "%M" -> IF w = 2 THEN n \in 0..59 ELSE TRUE
    [] tok = "%S" -> IF w = 2 THEN n \in 0..61 ELSE TRUE
    [] OTHER -> TRUE

DirectivePut(acc, tok, n) ==
  CASE tok = "%d" -> [acc EXCEPT !.d = n]
    [] tok = "%m" -> [acc EXCEPT !.m = n]
    [] tok = "%Y" -> [acc EXCEPT !.y = n]
    [] tok = "%y" -> [acc EXCEPT !.y = IF n < 69 THEN 2000 + n ELSE 1900 + n]
    [] OTHER -> acc

RECURSIVE SkipSpaces(_, _)
SkipSpaces(s, j) == IF j <= Len(s) /\ IsSpace(s[j]) THEN SkipSpaces(s, j + 1) ELSE j

\* the format's regular expression matched against s from position j
RECURSIVE strptimeFrom(_, _, _, _, _)
RECURSIVE strptimeDigits(_, _, _, _, _, _)
\* the numeric directive fmt[i] matched against w digits of s at position j
strptimeDigits(fmt, i, s, j, acc, w) ==
  IF j + w - 1 <= Len(s) /\ AllDigits(SubSeq(s, j, j + w - 1))
     /\ DirectiveOk(fmt[i], w, DigitsVal(SubSeq(s, j, j + w - 1)))
  THEN strptimeFrom(fmt, i + 1, s, j + w,
                    DirectivePut(acc, fmt[i], DigitsVal(SubSeq(s, j, j + w - 1))))
  ELSE None

\* strptimeFrom, once first is known
strptimeFrom_first(ws, fmt, i, s, j, acc, first) ==
  IF first # None \/ Len(ws) = 1 THEN first
  ELSE strptimeDigits(fmt, i, s, j, acc, ws[2])

\* strptimeFrom, once ws is known
strptimeFrom_ws(fmt, i, s, j, acc, ws) ==
  strptimeFrom_first(ws, fmt, i, s, j, acc,
    strptimeDigits(fmt, i, s, j, acc, ws[1]))

\* strptimeFrom, once tok is known
strptimeFrom_tok(fmt, i, s, j, acc, tok) ==
  IF tok \in NumericDirectives THEN
    strptimeFrom_ws(fmt, i, s, j, acc,
      DirectiveWidths(tok))
  ELSE IF tok = "%b" THEN
    IF j + 2 <= Len(s) /\ \E k \in 1..12 : MonthAbbr[k] = lower(SubSeq(s, j, j + 2))
    THEN strptimeFrom(fmt, i + 1, s, j + 3,
           [acc EXCEPT !.m = CHOOSE k \in 1..12 : MonthAbbr[k] = lower(SubSeq(s, j, j + 2))])
    ELSE None
  ELSE IF IsSpace(tok) THEN
    IF j <= Len(s) /\ IsSpace(s[j])
    THEN strptimeFrom(fmt, i + 1, s, SkipSpaces(s, j), acc)
    ELSE None
  ELSE
    IF j <= Len(s) /\ LowerChar(s[j]) = LowerChar(tok)
    THEN strptimeFrom(fmt, i + 1, s, j + 1, acc)
    ELSE None

strptimeFrom(fmt, i, s, j, acc) ==
  IF i > Len(fmt) THEN (IF j = Len(s) + 1 THEN Some(acc) ELSE None)
  ELSE
    strptimeFrom_tok(fmt, i, s, j, acc,
      fmt[i])

\* strptime, once r is known
strptime_r(r) ==
  IF r = None THEN None
  ELSE IF ValidDate(r[1].y, r[1].m, r[1].d)
       THEN Some(date(r[1].y, r[1].m, r[1].d)) ELSE None

\* datetime.strptime(s, fmt).date(); None on ValueError
strptime(s, fmt) ==
  strptime_r(
    strptimeFrom(fmt, 1, s, 1, [y |-> 1900, m |-> 1, d |-> 1]))

(***************************************************************************)
(* Cells and grids (the values openpyxl / usedRange hand to the engine)    *)
(***************************************************************************)
NoneCell == [k |-> "none", n |-> 0, s |-> <<>>]
Num(n) == [k |-> "num", n |-> n, s |-> <<>>]
Str(s) == [k |-> "str", n |-> 0, s |-> s]
\* a datetime cell at midnight
DateCell(d) == [k |-> "date", n |-> d, s |-> <<>>]

\* str(v)
pystr(v) ==
  CASE v.k = "none" -> <<"N","o","n","e">>
    [] v.k = "num" -> IntToStr(v.n)
    [] v.k = "str" -> v.s
    [] v.k = "date" -> isoformat(v.n) \o <<" ","0","0",":","0","0",":","0","0">>

\* values[r - 1] if r - 1 < len(values) else []
RowAt(values, r) == IF r >= 1 /\ r <= Len(values) THEN values[r] ELSE <<>>

\* row[c - 1] if c - 1 < len(row) else None
CellAt(row, c) == IF c >= 1 /\ c <= Len(row) THEN row[c] ELSE NoneCell

\* the elements of a finite set of integers in ascending order: sorted(S)
RECURSIVE sorted(_)
\* sorted, once lo is known
sorted_lo(S, lo) ==
  <<lo>> \o sorted(S \ {lo})

sorted(S) ==
  IF S = {} THEN <<>>
  ELSE sorted_lo(S,
         CHOOSE x \in S : \A y \in S : x <= y)

SetMax(S) == CHOOSE x \in S : \A y \in S : x >= y
SetMin(S) == CHOOSE x \in S : \A y \in S : x <= y

(***************************************************************************)
(* excel_routes.py: generic helpers                                        *)
(***************************************************************************)
\* "-", U+2014 and U+2013, the latter two written as one-character names
Dashes == {<<"-">>, <<"EMDASH">>, <<"ENDASH">>}

\* _to_float_cell, once s is known
_to_float_cell_s(s) ==
  pyfloat(s)

\* _to_float_cell, once s0 is known
_to_float_cell_s0(s0) ==
  _to_float_cell_s(
    IF StartsWith(s0, <<"(">>) /\ s0[Len(s0)] = ")"
    THEN <<"-">> \o SubSeq(s0, 2, Len(s0) - 1) ELSE s0)

_to_float_cell(v) ==
  IF v.k = "none" \/ (v.k = "str" /\ v.s = <<>>) \/ strip(pystr(v)) \in Dashes
  THEN None
  ELSE _to_float_cell_s0(
         RemoveChars(strip(pystr(v)), {",", "$"}))

_candidate_date_formats ==
  << <<"%m", "/", "%d", "/", "%Y">>,
     <<"%Y", "-", "%m", "-", "%d">>,
     <<"%d", "/", "%m", "/", "%Y">>,
     <<"%m", "/", "%d", "/", "%y">>,
     <<"%d", "-", "%b", "-", "%Y">>,
     <<"%Y", "-", "%m", "-", "%d", " ", "%H", ":", "%M", ":", "%S">>,
     <<"%Y", "-", "%m", "-", "%d", "T", "%H", ":", "%M", ":", "%S">>,
     <<"%d", "-", "%b", "-", "%y">>,
     <<"%b", "-", "%y">>,
     <<"%b", " ", "%y">>,
     <<"%b", "-", "%Y">>,
     <<"%b", " ", "%Y">> >>

SerialLow == 20000
SerialHigh == 90000

\* _maybe_excel_serial, once fv is known
_maybe_excel_serial_fv(fv) ==
  IF fv # None /\ SerialLow < fv[1] /\ fv[1] < SerialHigh THEN Some(fv[1]) ELSE None

_maybe_excel_serial(v) ==
  _maybe_excel_serial_fv(
    IF v.k = "num" THEN Some(v.n)
    ELSE IF v.k = "str" THEN pyfloat(v.s) ELSE None)

\* s.rstrip("Z")
RECURSIVE rstripZ(_)
rstripZ(s) == IF s # <<>> /\ s[Len(s)] = "Z" THEN rstripZ(SubSeq(s, 1, Len(s) - 1)) ELSE s

\* FirstParse, once ok is known
FirstParse_ok(s, fmts, ok) ==
  IF ok = {} THEN None ELSE strptime(s, fmts[SetMin(ok)])

\* the first format of fmts that parses s
FirstParse(s, fmts) ==
  FirstParse_ok(s, fmts,
    {i \in 1..Len(fmts) : strptime(s, fmts[i]) # None})

excel_looks_like_date(v) ==
  \/ v.k = "date"
  \/ _maybe_excel_serial(v) # None
  \/ FirstParse(rstripZ(strip(pystr(v))), _candidate_date_formats) # None

excel_parse_date_any(v) ==
  IF v.k = "date" THEN Some(v.n)
  ELSE IF _maybe_excel_serial(v) # None THEN _maybe_excel_serial(v)
  ELSE FirstParse(rstripZ(strip(pystr(v))), _candidate_date_formats)

_clean_txt(x) == lower(strip(CollapseSpaces(x)))

(***************************************************************************)
(* excel_routes.py: label aliases (the languages of the alias patterns)    *)
(***************************************************************************)
MetricOrder == <<"beginning", "ending", "unrealized", "realized", "fees">>

excel_LABEL_ALIASES ==
  [beginning |-> {<<"b","e","g","i","n"," ","b","a","l","a","n","c","e">>, <<"b","e","g","i","n","n","i","n","g"," ","b","a","l","a","n","c","e">>, <<"o","p","e","n","i","n","g"," ","n","a","v">>,
                  <<"o","p","e","n","i","n","g"," ","b","a","l","a","n","c","e">>, <<"c","u","r","r","e","n","t"," ","p","e","r","i","o","d"," ","b","e","g","i","n"," ","b","a","l","a","n","c","e">>,
                  <<"c","u","r","r","e","n","t"," ","p","e","r","i","o","d"," ","b","e","g","i","n","n","i","n","g"," ","b","a","l","a","n","c","e">>, <<"t","o","t","a","l"," ","b","e","g","i","n"," ","b","a","l","a","n","c","e">>,
                  <<"t","o","t","a","l"," ","b","e","g","i","n","n","i","n","g"," ","b","a","l","a","n","c","e">>},
   ending |-> {<<"e","n","d","i","n","g"," ","b","a","l","a","n","c","e">>, <<"c","l","o","s","i","n","g"," ","b","a","l","a","n","c","e">>, <<"c","u","r","r","e","n","t"," ","v","a","l","u","e">>,
               <<"t","o","t","a","l"," ","e","n","d","i","n","g"," ","b","a","l","a","n","c","e">>, <<"t","o","t","a","l"," ","c","u","r","r","e","n","t"," ","v","a","l","u","e">>},
   unrealized |-> {<<"u","n","r","e","a","l","i","e","d"," ","g","a","i","n","l","o","s","s">>, <<"u","n","r","e","a","l","i","e","d"," ","g","a","i","n","/","l","o","s","s">>,
                   <<"u","n","r","e","a","l","i","s","e","d"," ","g","a","i","n","l","o","s","s">>, <<"u","n","r","e","a","l","i","s","e","d"," ","g","a","i","n","/","l","o","s","s">>, <<"u","n","r","e","a","l","i","z","e","d"," ","p","n","l">>,
                   <<"t","o","t","a","l"," ","u","n","r","e","a","l","i","e","d"," ","g","a","i","n","l","o","s","s">>, <<"t","o","t","a","l"," ","u","n","r","e","a","l","i","e","d"," ","g","a","i","n","/","l","o","s","s">>,
                   <<"t","o","t","a","l"," ","u","n","r","e","a","l","i","s","e","d"," ","g","a","i","n","l","o","s","s">>, <<"t","o","t","a","l"," ","u","n","r","e","a","l","i","s","e","d"," ","g","a","i","n","/","l","o","s","s">>},
   realized |-> {<<"r","e","a","l","i","e","d"," ","g","a","i","n","l","o","s","s">>, <<"r","e","a","l","i","e","d"," ","g","a","i","n","/","l","o","s","s">>,
                 <<"r","e","a","l","i","s","e","d"," ","g","a","i","n","l","o","s","s">>, <<"r","e","a","l","i","s","e","d"," ","g","a","i","n","/","l","o","s","s">>, <<"r","e","a","l","i","z","e","d"," ","p","n","l">>,
                 <<"t","o","t","a","l"," ","r","e","a","l","i","e","d"," ","g","a","i","n","l","o","s","s">>, <<"t","o","t","a","l"," ","r","e","a","l","i","e","d"," ","g","a","i","n","/","l","o","s","s">>,
                 <<"t","o","t","a","l"," ","r","e","a","l","i","s","e","d"," ","g","a","i","n","l","o","s","s">>, <<"t","o","t","a","l"," ","r","e","a","l","i","s","e","d"," ","g","a","i","n","/","l","o","s","s">>},
   fees |-> {<<"m","a","n","a","g","e","m","e","n","t"," ","f","e","e">>, <<"m","a","n","a","g","e","m","e","n","t"," ","f","e","e","s">>, <<"m","g","m","t"," ","f","e","e">>, <<"m","g","m","t"," ","f","e","e","s">>,
             <<"t","o","t","a","l"," ","m","a","n","a","g","e","m","e","n","t"," ","f","e","e">>, <<"t","o","t","a","l"," ","m","a","n","a","g","e","m","e","n","t"," ","f","e","e","s">>}]

\* excel_classify, once hit is known
excel_classify_hit(hit) ==
  IF hit = {} THEN None ELSE Some(MetricOrder[SetMin(hit)])

\* the first canonical label one of whose patterns fully matches txt, as its
\* metric key (_METRIC_KEYS); None when none matches
excel_classify(txt) ==
  excel_classify_hit(
    {i \in 1..Len(MetricOrder) : txt \in excel_LABEL_ALIASES[MetricOrder[i]]})

(***************************************************************************)
(* excel_routes.py: header row, metric of a column, aggregation            *)
(***************************************************************************)
GridCols(values) ==
  IF values = <<>> THEN 0 ELSE SetMax({Len(values[r]) : r \in 1..Len(values)})

\* excel_row_dates, once cs is known
excel_row_dates_cs(values, r, cs) ==
  [c \in cs |-> excel_parse_date_any(CellAt(values[r], c))[1]]

\* the date cells of row r: column -> date
excel_row_dates(values, r) ==
  excel_row_dates_cs(values, r,
    {c \in 1..GridCols(values) :
       /\ excel_looks_like_date(CellAt(values[r], c))
       /\ excel_parse_date_any(CellAt(values[r], c)) # None})

MinDateCells == 2

\* excel_find_header_row_and_date_columns, once pick is known
excel_find_header_row_and_date_columns_pick(candidates, values, pick) ==
  IF candidates = {} THEN [hdr |-> 0, cols |-> <<>>]
  ELSE [hdr |-> pick, cols |-> excel_row_dates(values, pick)]

\* a faulty choice, which does not look at the anchor
excel_find_header_row_most_dates(anchor_row, candidates, values, above, most) ==
  excel_find_header_row_and_date_columns_pick(candidates, values, SetMin(most))

\* excel_find_header_row_and_date_columns, once above, most are known
excel_find_header_row_and_date_columns_above(anchor_row, candidates, values, above, most) ==
  excel_find_header_row_and_date_columns_pick(candidates, values,
    IF anchor_row # 0 /\ above # {} THEN SetMax(above) ELSE SetMin(most))

\* excel_find_header_row_and_date_columns, once candidates is known
excel_find_header_row_and_date_columns_candidates(anchor_row, n, values, candidates) ==
  excel_find_header_row_and_date_columns_above(anchor_row, candidates, values,
    {r \in candidates : r <= anchor_row},
    {r \in candidates : \A q \in candidates : n[q] <= n[r]})

\* excel_find_header_row_and_date_columns, once n is known
excel_find_header_row_and_date_columns_n(scan, anchor_row, values, n) ==
  excel_find_header_row_and_date_columns_candidates(anchor_row, n, values,
    {r \in scan : n[r] >= MinDateCells})

\* excel_find_header_row_and_date_columns, once scan is known
excel_find_header_row_and_date_columns_scan(values, anchor_row, scan) ==
  excel_find_header_row_and_date_columns_n(scan, anchor_row, values,
    [r \in scan |-> Cardinality(DOMAIN excel_row_dates(values, r))])

\* hdr = 0 stands for (None, {})
excel_find_header_row_and_date_columns(values, max_scan_rows, anchor_row) ==
  excel_find_header_row_and_date_columns_scan(values, anchor_row,
    1..(IF Len(values) < max_scan_rows THEN Len(values) ELSE max_scan_rows))

MetricSearchRows == 13

\* excel_metric_at, once cell is known
excel_metric_at_cell(cell) ==
  excel_classify(_clean_txt(IF cell.k = "none" THEN <<>> ELSE pystr(cell)))

\* the metric named by the cell of row r, None when r is above the sheet
excel_metric_at(values, r, col_1b) ==
  IF r < 1 THEN None
  ELSE excel_metric_at_cell(
         CellAt(RowAt(values, r), col_1b))

RECURSIVE excel_metric_search(_, _, _, _)
\* excel_metric_search, once up, down are known
excel_metric_search_up(values, header_row_1b, col_1b, d, up, down) ==
  IF up # None THEN up
  ELSE IF down # None THEN down
  ELSE excel_metric_search(values, header_row_1b, col_1b, d + 1)

excel_metric_search(values, header_row_1b, col_1b, d) ==
  IF d >= MetricSearchRows THEN None
  ELSE
    excel_metric_search_up(values, header_row_1b, col_1b, d,
      excel_metric_at(values, header_row_1b - d, col_1b),
      excel_metric_at(values, header_row_1b + d, col_1b))

excel_metric_for_column(values, header_row_1b, col_1b) ==
  excel_metric_search(values, header_row_1b, col_1b, 0)

\* _next_metric_label_below, once below is known
_next_metric_label_below_below(below) ==
  IF below = {} THEN 0 ELSE SetMin(below)

\* all_label_rows holds 0 for a label that was not found
_next_metric_label_below(start_row_1b, all_label_rows) ==
  _next_metric_label_below_below(
    {r \in {all_label_rows[i] : i \in 1..Len(all_label_rows)} :
      r # 0 /\ r > start_row_1b})

FORBIDDEN == {<<"t","o","t","a","l">>, <<"e","n","t","i","t","y"," ","l","e","v","e","l">>, <<"g","r","a","n","d"," ","t","o","t","a","l">>}

MaxBlankStreak == 50
NameCol == 2
IdCol == 1

RECURSIVE SumRowsFrom(_, _, _, _, _, _, _)
\* SumRowsFrom, once is_partner_row is known
SumRowsFrom_is_partner_row(name_txt, values, r, limit, date_col_1b, total, have, blanks, f,
    is_partner_row) ==
  IF name_txt \in FORBIDDEN
  THEN SumRowsFrom(values, r + 1, limit, date_col_1b, total, have, 0)
  ELSE IF ~is_partner_row
  THEN IF blanks + 1 >= MaxBlankStreak
       THEN (IF have THEN Some(total) ELSE None)
       ELSE SumRowsFrom(values, r + 1, limit, date_col_1b, total, have, blanks + 1)
  ELSE IF f # None
  THEN SumRowsFrom(values, r + 1, limit, date_col_1b, total + f[1], TRUE, 0)
  ELSE SumRowsFrom(values, r + 1, limit, date_col_1b, total, have, 0)

\* SumRowsFrom, once name_txt is known
SumRowsFrom_name_txt(id_val, values, r, limit, date_col_1b, total, have, blanks, f, name_txt) ==
  SumRowsFrom_is_partner_row(name_txt, values, r, limit, date_col_1b, total, have, blanks, f,
    \/ name_txt # <<>>
    \/ id_val.k = "num"
    \/ (id_val.k = "str" /\ strip(id_val.s) # <<>>))

\* SumRowsFrom, once name_val, id_val, f are known
SumRowsFrom_name_val(values, r, limit, date_col_1b, total, have, blanks, name_val, id_val, f) ==
  SumRowsFrom_name_txt(id_val, values, r, limit, date_col_1b, total, have, blanks, f,
    _clean_txt(IF name_val.k = "none" THEN <<>> ELSE pystr(name_val)))

\* SumRowsFrom, once row is known
SumRowsFrom_row(date_col_1b, values, r, limit, total, have, blanks, row) ==
  SumRowsFrom_name_val(values, r, limit, date_col_1b, total, have, blanks,
    CellAt(row, NameCol),
    CellAt(row, IdCol),
    _to_float_cell(CellAt(row, date_col_1b)))

SumRowsFrom(values, r, limit, date_col_1b, total, have, blanks) ==
  IF ~(r < limit /\ r <= Len(values)) THEN (IF have THEN Some(total) ELSE None)
  ELSE
    SumRowsFrom_row(date_col_1b, values, r, limit, total, have, blanks,
      RowAt(values, r))

\* a faulty aggregation, which the properties of the aggregate must reject:
\* "return total or None", which answers None for a sum of zero
_sum_investor_rows_falsy_total(values, start_label_row_1b, date_col_1b, stop_row_1b) ==
  IF SumRowsFrom(values, start_label_row_1b + 1,
                 IF stop_row_1b # 0 THEN stop_row_1b ELSE Len(values) + 1,
                 date_col_1b, 0, FALSE, 0) = Some(0)
  THEN None
  ELSE SumRowsFrom(values, start_label_row_1b + 1,
                   IF stop_row_1b # 0 THEN stop_row_1b ELSE Len(values) + 1,
                   date_col_1b, 0, FALSE, 0)

\* stop_row_1b = 0 stands for None
_sum_investor_rows_ignore_total(values, start_label_row_1b, date_col_1b, stop_row_1b) ==
  SumRowsFrom(values, start_label_row_1b + 1,
              IF stop_row_1b # 0 THEN stop_row_1b ELSE Len(values) + 1,
              date_col_1b, 0, FALSE, 0)

(***************************************************************************)
(* Monthly totals: date -> record of the five totals                       *)
(***************************************************************************)
EmptyRec == [beginning |-> None, ending |-> None, unrealized |-> None,
             realized |-> None, fees |-> None]

\* totals_by_date[as_of] = rec
PutTotals(totals, as_of, rec) ==
  [d \in (DOMAIN totals) \cup {as_of} |-> IF d = as_of THEN rec ELSE totals[d]]

\* CarryForward, once prevs is known
CarryForward_prevs(totals, d, prevs) ==
  IF totals[d].beginning = None /\ prevs # {}
  THEN [totals[d] EXCEPT !.beginning = totals[SetMax(prevs)].ending]
  ELSE totals[d]

\* a faulty carry-forward, which leaves every beginning as it was read
CarryNothing(totals) == totals

\* "carry forward missing beginnings": the loop over sorted(totals_by_date)
CarryForward(totals) ==
  [d \in DOMAIN totals |->
     CarryForward_prevs(totals, d,
       {p \in DOMAIN totals : p < d})]

(***************************************************************************)
(* excel_routes.py: _ingest_local_admin_totals, up to the upsert loop      *)
(***************************************************************************)
LabelText ==
  [beginning |-> <<"B","e","g","i","n","n","i","n","g"," ","B","a","l","a","n","c","e">>, ending |-> <<"E","n","d","i","n","g"," ","B","a","l","a","n","c","e">>,
   unrealized |-> <<"U","n","r","e","a","l","i","z","e","d"," ","G","a","i","n","/","L","o","s","s">>, realized |-> <<"R","e","a","l","i","z","e","d"," ","G","a","i","n","/","L","o","s","s">>,
   fees |-> <<"M","a","n","a","g","e","m","e","n","t"," ","F","e","e","s">>]

AnchorScanRows == 200
LabelScanRows == 250

FirstRows(values, n) == 1..(IF Len(values) < n THEN Len(values) ELSE n)

\* EndingAnchorRow, once hit is known
EndingAnchorRow_hit(hit) ==
  IF hit = {} THEN 0 ELSE SetMin(hit)

\* "anchor near 'ending balance'": 0 when no row holds the text
EndingAnchorRow(values) ==
  EndingAnchorRow_hit(
    {r \in FirstRows(values, AnchorScanRows) :
       \E c \in 1..Len(values[r]) :
          /\ values[r][c].k # "none"
          /\ Contains(<<"e","n","d","i","n","g"," ","b","a","l","a","n","c","e">>, lower(pystr(values[r][c])))})

\* _find_label, once hit is known
_find_label_hit(hit) ==
  IF hit = {} THEN 0 ELSE SetMin(hit)

\* 0 when the label is in no cell of the first rows
_find_label(values, label) ==
  _find_label_hit(
    {r \in FirstRows(values, LabelScanRows) :
       \E c \in 1..Len(values[r]) :
          /\ values[r][c].k # "none"
          /\ _clean_txt(pystr(values[r][c])) = _clean_txt(label)})

\* the loop over sorted(date_cols.items())
RECURSIVE UploadColumns(_, _, _, _, _, _)
\* UploadColumns, once rec2 is known
UploadColumns_rec2(values, hdr_row, date_cols, label_rows, cols, totals, as_of, rec2) ==
  UploadColumns(values, hdr_row, date_cols, label_rows, Tail(cols),
                PutTotals(totals, as_of, rec2))

\* a faulty column loop, which the last-occurrence rule must reject: a metric
\* that an earlier column of the month has set is kept
UploadColumns_first_wins(metric, start_row, rec, values, hdr_row, date_cols, label_rows, cols, totals, as_of, val) ==
  UploadColumns_rec2(values, hdr_row, date_cols, label_rows, cols, totals, as_of,
    IF metric = None \/ start_row = 0 THEN rec
    ELSE IF rec[metric[1]] # None THEN rec
    ELSE [rec EXCEPT ![metric[1]] = val])

\* UploadColumns, once val is known
UploadColumns_val(metric, start_row, rec, values, hdr_row, date_cols, label_rows, cols, totals, as_of, val) ==
  UploadColumns_rec2(values, hdr_row, date_cols, label_rows, cols, totals, as_of,
    IF metric = None \/ start_row = 0 THEN rec
    ELSE [rec EXCEPT ![metric[1]] = val])

\* UploadColumns, once stop_row is known
UploadColumns_stop_row(values, start_row, col1b, metric, rec, hdr_row, date_cols, label_rows,
    cols, totals, as_of, stop_row) ==
  UploadColumns_val(metric, start_row, rec, values, hdr_row, date_cols, label_rows, cols,
    totals, as_of,
    _sum_investor_rows_ignore_total(values, start_row, col1b, stop_row))

\* UploadColumns, once rec, start_row are known
UploadColumns_rec(label_rows, values, col1b, metric, hdr_row, date_cols, cols, totals, as_of,
    rec, start_row) ==
  UploadColumns_stop_row(values, start_row, col1b, metric, rec, hdr_row, date_cols, label_rows,
    cols, totals, as_of,
    _next_metric_label_below(start_row,
      <<label_rows.beginning, label_rows.ending, label_rows.unrealized,
        label_rows.realized, label_rows.fees>>))

\* UploadColumns, once as_of, metric are known
UploadColumns_as_of(totals, label_rows, values, col1b, hdr_row, date_cols, cols, as_of, metric) ==
  UploadColumns_rec(label_rows, values, col1b, metric, hdr_row, date_cols, cols, totals, as_of,
    IF as_of \in DOMAIN totals THEN totals[as_of] ELSE EmptyRec,
    IF metric = None THEN 0 ELSE label_rows[metric[1]])

\* UploadColumns, once col1b is known
UploadColumns_col1b(date_cols, values, hdr_row, totals, label_rows, cols, col1b) ==
  UploadColumns_as_of(totals, label_rows, values, col1b, hdr_row, date_cols, cols,
    MonthEnd(date_cols[col1b]),
    excel_metric_for_column(values, hdr_row, col1b))

UploadColumns(values, hdr_row, date_cols, label_rows, cols, totals) ==
  IF cols = <<>> THEN totals
  ELSE
    UploadColumns_col1b(date_cols, values, hdr_row, totals, label_rows, cols,
      Head(cols))

\* UploadRawTotals, once h is known
UploadRawTotals_h(values, label_rows, h) ==
  IF h.hdr = 0 \/ DOMAIN h.cols = {} THEN [ok |-> FALSE, totals |-> <<>>]
  ELSE [ok |-> TRUE,
        totals |-> UploadColumns(values, h.hdr, h.cols, label_rows,
                                 sorted(DOMAIN h.cols), <<>>)]

\* UploadRawTotals, once lbl_end, label_rows are known
UploadRawTotals_lbl_end(values, lbl_end, label_rows) ==
  UploadRawTotals_h(values, label_rows,
    excel_find_header_row_and_date_columns(values, AnchorScanRows,
      IF lbl_end # 0 THEN lbl_end ELSE AnchorScanRows))

\* totals_by_date as the column loop leaves it; ok = FALSE is the RuntimeError
\* raised before any statement
UploadRawTotals(values) ==
  UploadRawTotals_lbl_end(values,
    EndingAnchorRow(values),
    [m \in DOMAIN LabelText |-> _find_label(values, LabelText[m])])

\* totals_by_date after "carry forward missing beginnings"
UploadTotals(values) ==
  [ok |-> UploadRawTotals(values).ok, totals |-> CarryForward(UploadRawTotals(values).totals)]

(***************************************************************************)
(* metrics_routes.py: value and date helpers                               *)
(***************************************************************************)
\* _to_float, once s is known
_to_float_s(s) ==
  pyfloat(s)

\* _to_float, once s0 is known
_to_float_s0(s0) ==
  _to_float_s(
    IF StartsWith(s0, <<"(">>) /\ s0[Len(s0)] = ")"
    THEN <<"-">> \o SubSeq(s0, 2, Len(s0) - 1) ELSE s0)

_to_float(v) ==
  IF v.k = "none" \/ (v.k = "str" /\ v.s \in ({<<>>} \cup Dashes))
  THEN None
  ELSE _to_float_s0(
         RemoveChars(strip(pystr(v)), {",", "$"}))

\* the date of a datetime whose time of day is dropped
_parse_excel_date(val) ==
  IF val.k = "date" THEN Some(val.n)
  ELSE IF val.k = "num"
       THEN (IF SerialLow < val.n /\ val.n < SerialHigh THEN Some(val.n) ELSE None)
  ELSE IF val.k = "str"
       THEN FirstParse(strip(val.s),
              << <<"%m", "/", "%d", "/", "%Y">>, <<"%d", "/", "%m", "/", "%Y">>,
                 <<"%Y", "-", "%m", "-", "%d">>, <<"%m", "/", "%d", "/", "%y">>,
                 <<"%d", "-", "%b", "-", "%Y">> >>)
  ELSE None

\* datetime.utcnow(), as a date
Today == date(2024, 12, 31)

SaneDays == 31

_is_sane_date(dt) ==
  dt # None /\ date(2000, 1, 1) <= dt[1] /\ dt[1] <= Today + SaneDays

\* re.sub(r"[^a-z0-9]+", "", x.lower()) after the no-break characters are folded
_normhdr(x) ==
  SelectSeq(lower(x), LAMBDA c : IsDigit(c) \/ \E i \in 1..Len(LowerCase) : LowerCase[i] = c)

_DATE_ALIASES_N == {<<"a","s","o","f","d","a","t","e">>, <<"a","s","o","f">>, <<"d","a","t","e">>, <<"p","e","r","i","o","d">>, <<"m","o","n","t","h">>,
                    <<"v","a","l","u","a","t","i","o","n","d","a","t","e">>, <<"n","a","v","d","a","t","e">>, <<"s","t","a","t","e","m","e","n","t","d","a","t","e">>, <<"p","r","i","c","i","n","g","d","a","t","e">>}
_ENDING_ALIASES_N == {<<"y","t","d","e","n","d","i","n","g","b","a","l","a","n","c","e">>, <<"e","n","d","i","n","g","b","a","l","a","n","c","e">>, <<"c","l","o","s","i","n","g","b","a","l","a","n","c","e">>,
                      <<"c","u","r","r","e","n","t","v","a","l","u","e">>}
_BEGIN_ALIASES_N == {<<"c","u","r","r","e","n","t","p","e","r","i","o","d","b","e","g","b","a","l","a","n","c","e">>, <<"c","u","r","r","e","n","t","p","e","r","i","o","d","b","e","g","i","n","n","i","n","g","b","a","l","a","n","c","e">>,
                     <<"b","e","g","i","n","n","i","n","g","b","a","l","a","n","c","e">>, <<"o","p","e","n","i","n","g","b","a","l","a","n","c","e">>, <<"o","p","e","n","i","n","g","n","a","v">>}

\* any(alias in t for alias in aliases)
AnyAliasIn(aliases, t) == \E a \in aliases : Contains(a, t)

(***************************************************************************)
(* metrics_routes.py: ingestion helpers                                    *)
(***************************************************************************)
\* U+00A0 and U+2011 are written as one-character names
FoldNoBreak(s) ==
  [i \in 1..Len(s) |-> IF s[i] = "NBSP" THEN " " ELSE IF s[i] = "NBHYPHEN" THEN "-" ELSE s[i]]

metrics_clean_txt(x) == lower(strip(CollapseSpaces(FoldNoBreak(x))))

metrics_LABEL_ALIASES ==
  [beginning |-> excel_LABEL_ALIASES.beginning,
   ending |-> excel_LABEL_ALIASES.ending,
   unrealized |-> excel_LABEL_ALIASES.unrealized \cup
                  {<<"r","e","a","l","i","e","d"," ","g","a","i","n","/","(","l","o","s","s",")">>, <<"r","e","a","l","i","s","e","d"," ","g","a","i","n","/","(","l","o","s","s",")">>},
   realized |-> excel_LABEL_ALIASES.realized,
   fees |-> excel_LABEL_ALIASES.fees \cup
            {<<"m","a","n","a","g","e"," ","f","e","e">>, <<"m","a","n","a","g","e"," ","f","e","e","s">>, <<"m","a","n","a","g","i","n","g"," ","f","e","e">>, <<"m","a","n","a","g","i","n","g"," ","f","e","e","s">>}]

\* metrics_classify, once hit is known
metrics_classify_hit(hit) ==
  IF hit = {} THEN None ELSE Some(MetricOrder[SetMin(hit)])

metrics_classify(txt) ==
  metrics_classify_hit(
    {i \in 1..Len(MetricOrder) : txt \in metrics_LABEL_ALIASES[MetricOrder[i]]})

LabelSearchRows == 200

\* _find_label_row, once hit is known
_find_label_row_hit(hit) ==
  IF hit = {} THEN 0 ELSE SetMin(hit)

\* 0 when no cell of the first rows matches a pattern of the label
_find_label_row(values, metric) ==
  _find_label_row_hit(
    {r \in FirstRows(values, LabelSearchRows) :
       \E c \in 1..Len(values[r]) :
          metrics_clean_txt(pystr(values[r][c])) \in metrics_LABEL_ALIASES[metric]})

TotalSearchRows == 500
TotalSearchCols == 30

\* _find_total_row, once hit is known
_find_total_row_hit(hit) ==
  IF hit = {} THEN 0 ELSE SetMin(hit)

_find_total_row(values) ==
  _find_total_row_hit(
    {r \in FirstRows(values, TotalSearchRows) :
       \E c \in 1..Len(values[r]) :
          /\ c <= TotalSearchCols
          /\ values[r][c].k = "str"
          /\ lower(strip(values[r][c].s)) = <<"t","o","t","a","l">>})

metrics_looks_like_date(v) ==
  \/ (v.k = "num" /\ SerialLow < v.n /\ v.n < SerialHigh)
  \/ v.k = "date"
  \/ strptime(strip(pystr(v)), <<"%m", "/", "%d", "/", "%Y">>) # None
  \/ strptime(strip(pystr(v)), <<"%Y", "-", "%m", "-", "%d">>) # None

metrics_parse_date_any(v) ==
  IF v.k = "date" THEN Some(v.n)
  ELSE IF v.k = "num" /\ SerialLow < v.n /\ v.n < SerialHigh THEN Some(v.n)
  ELSE FirstParse(strip(pystr(v)),
         << <<"%m", "/", "%d", "/", "%Y">>, <<"%Y", "-", "%m", "-", "%d">>,
            <<"%d", "/", "%m", "/", "%Y">> >>)

\* metrics_row_dates, once cs is known
metrics_row_dates_cs(values, r, cs) ==
  [c \in cs |-> metrics_parse_date_any(CellAt(values[r], c))[1]]

metrics_row_dates(values, r) ==
  metrics_row_dates_cs(values, r,
    {c \in 1..GridCols(values) :
       /\ metrics_looks_like_date(CellAt(values[r], c))
       /\ metrics_parse_date_any(CellAt(values[r], c)) # None})

\* metrics_find_header_row_and_date_columns, once pick is known
metrics_find_header_row_and_date_columns_pick(candidates, values, pick) ==
  IF candidates = {} THEN [hdr |-> 0, cols |-> <<>>]
  ELSE [hdr |-> pick, cols |-> metrics_row_dates(values, pick)]

\* metrics_find_header_row_and_date_columns, once above, most are known
metrics_find_header_row_and_date_columns_above(anchor_row, candidates, values, above, most) ==
  metrics_find_header_row_and_date_columns_pick(candidates, values,
    IF anchor_row # 0 /\ above # {} THEN SetMax(above) ELSE SetMin(most))

\* metrics_find_header_row_and_date_columns, once candidates is known
metrics_find_header_row_and_date_columns_candidates(anchor_row, n, values, candidates) ==
  metrics_find_header_row_and_date_columns_above(anchor_row, candidates, values,
    {r \in candidates : r <= anchor_row},
    {r \in candidates : \A q \in candidates : n[q] <= n[r]})

\* metrics_find_header_row_and_date_columns, once n is known
metrics_find_header_row_and_date_columns_n(scan, anchor_row, values, n) ==
  metrics_find_header_row_and_date_columns_candidates(anchor_row, n, values,
    {r \in scan : n[r] >= MinDateCells})

\* metrics_find_header_row_and_date_columns, once scan is known
metrics_find_header_row_and_date_columns_scan(values, anchor_row, scan) ==
  metrics_find_header_row_and_date_columns_n(scan, anchor_row, values,
    [r \in scan |-> Cardinality(DOMAIN metrics_row_dates(values, r))])

metrics_find_header_row_and_date_columns(values, max_scan_rows, anchor_row) ==
  metrics_find_header_row_and_date_columns_scan(values, anchor_row,
    1..(IF Len(values) < max_scan_rows THEN Len(values) ELSE max_scan_rows))

RECURSIVE metrics_metric_search(_, _, _, _)
\* metrics_metric_search, once m is known
metrics_metric_search_m(values, r, col_1b, lowest, m) ==
  IF m # None THEN m ELSE metrics_metric_search(values, r - 1, col_1b, lowest)

\* metrics_metric_search, once txt is known
metrics_metric_search_txt(values, r, col_1b, lowest, txt) ==
  metrics_metric_search_m(values, r, col_1b, lowest,
    metrics_classify(CollapseSpaces(txt)))

\* metrics_metric_search, once cell is known
metrics_metric_search_cell(values, r, col_1b, lowest, cell) ==
  metrics_metric_search_txt(values, r, col_1b, lowest,
    lower(strip(FoldNoBreak(IF cell.k = "none" THEN <<>> ELSE pystr(cell)))))

metrics_metric_search(values, r, col_1b, lowest) ==
  IF ~(r >= 1 /\ r >= lowest) THEN None
  ELSE
    metrics_metric_search_cell(values, r, col_1b, lowest,
      CellAt(RowAt(values, r), col_1b))

metrics_metric_for_column(values, header_row_1b, col_1b, lookback_rows) ==
  metrics_metric_search(values, header_row_1b, col_1b, header_row_1b - lookback_rows)

_num_at(values, row_1b, col_1b) == _to_float(CellAt(RowAt(values, row_1b), col_1b))

(***************************************************************************)
(* metrics_routes.py: ingest_from_sheet, from the anchor to the carry      *)
(***************************************************************************)
DefaultAnchorRow == 60
IngestScanRows == 120
LookbackRows == 10

\* the TOTAL-ROW path: the loop over date_cols.items()
RECURSIVE TotalRowColumns(_, _, _, _, _, _)
\* TotalRowColumns, once rec is known
TotalRowColumns_rec(values, hdr_row, date_cols, total_row, cols, metric, totals, me, col_1b, rec) ==
  TotalRowColumns(values, hdr_row, date_cols, total_row, Tail(cols),
    IF metric = None THEN totals
    ELSE PutTotals(totals, me,
                   [rec EXCEPT ![metric[1]] = _num_at(values, total_row, col_1b)]))

\* TotalRowColumns, once metric, me are known
TotalRowColumns_metric(totals, values, hdr_row, date_cols, total_row, cols, col_1b, metric, me) ==
  TotalRowColumns_rec(values, hdr_row, date_cols, total_row, cols, metric, totals, me, col_1b,
    IF me \in DOMAIN totals THEN totals[me] ELSE EmptyRec)

\* TotalRowColumns, once col_1b is known
TotalRowColumns_col_1b(values, hdr_row, date_cols, totals, total_row, cols, col_1b) ==
  TotalRowColumns_metric(totals, values, hdr_row, date_cols, total_row, cols, col_1b,
    metrics_metric_for_column(values, hdr_row, col_1b, LookbackRows),
    MonthEnd(date_cols[col_1b]))

TotalRowColumns(values, hdr_row, date_cols, total_row, cols, totals) ==
  IF cols = <<>> THEN totals
  ELSE
    TotalRowColumns_col_1b(values, hdr_row, date_cols, totals, total_row, cols,
      Head(cols))

\* the label-row path: the loop over date_cols.items()
RECURSIVE LabelRowColumns(_, _, _, _, _)
\* LabelRowColumns, once rec is known
LabelRowColumns_rec(values, date_cols, lbl_rows, cols, totals, col_1b, rec) ==
  LabelRowColumns(values, date_cols, lbl_rows, Tail(cols),
                  PutTotals(totals, MonthEnd(date_cols[col_1b]), rec))

\* LabelRowColumns, once col_1b is known
LabelRowColumns_col_1b(lbl_rows, values, date_cols, cols, totals, col_1b) ==
  LabelRowColumns_rec(values, date_cols, lbl_rows, cols, totals, col_1b,
    [m \in DOMAIN EmptyRec |->
       IF lbl_rows[m] # 0 THEN _num_at(values, lbl_rows[m], col_1b) ELSE None])

LabelRowColumns(values, date_cols, lbl_rows, cols, totals) ==
  IF cols = <<>> THEN totals
  ELSE
    LabelRowColumns_col_1b(lbl_rows, values, date_cols, cols, totals,
      Head(cols))

\* SharePointRawTotals, once cols is known
SharePointRawTotals_cols(h, total_row, values, lbl_rows, cols) ==
  IF h.hdr = 0 THEN [ok |-> FALSE, totals |-> <<>>]
  ELSE IF total_row # 0
  THEN [ok |-> TRUE,
        totals |-> TotalRowColumns(values, h.hdr, h.cols, total_row, cols, <<>>)]
  ELSE IF lbl_rows.ending = 0 THEN [ok |-> FALSE, totals |-> <<>>]
  ELSE [ok |-> TRUE, totals |-> LabelRowColumns(values, h.cols, lbl_rows, cols, <<>>)]

\* SharePointRawTotals, once h is known
SharePointRawTotals_h(total_row, values, lbl_rows, h) ==
  SharePointRawTotals_cols(h, total_row, values, lbl_rows,
    sorted(DOMAIN h.cols))

\* SharePointRawTotals, once found, total_row, lbl_rows are known
SharePointRawTotals_found(values, found, total_row, lbl_rows) ==
  SharePointRawTotals_h(total_row, values, lbl_rows,
    metrics_find_header_row_and_date_columns(values, IngestScanRows,
      IF found # 0 THEN found ELSE DefaultAnchorRow))

\* totals_by_date before step 4; ok = FALSE is a 400 returned before any statement
SharePointRawTotals(values) ==
  SharePointRawTotals_found(values,
    _find_label_row(values, "ending"),
    _find_total_row(values),
    [m \in DOMAIN EmptyRec |-> _find_label_row(values, m)])

\* totals_by_date after "Beginning(M) = Ending(M-1) when beginning is blank"
SharePointTotals(values) ==
  [ok |-> SharePointRawTotals(values).ok,
   totals |-> CarryForward(SharePointRawTotals(values).totals)]

(***************************************************************************)
(* metrics_routes.py: period helpers (a datetime at midnight is its day)   *)
(***************************************************************************)
\* len(s) == 4 and s.isdigit()
IsYear(s) == Len(s) = 4 /\ AllDigits(s)

\* MonthCandidate, once cand is known
MonthCandidate_cand(y, m, cand) ==
  IF y = None \/ m = None \/ cand = {} THEN None ELSE Some(SetMax(cand))

\* MonthCandidate, once y, m are known
MonthCandidate_y(dates_for_scan, y, m) ==
  MonthCandidate_cand(y, m,
    {d \in dates_for_scan : Year(d) = y[1] /\ Month(d) = m[1]})

\* the "YYYY-MM" branch: the latest scanned date of that month, None when
\* the text is no year and month or no scanned date falls in the month
MonthCandidate(s, dates_for_scan) ==
  MonthCandidate_y(dates_for_scan,
    pyint(SubSeq(s, 1, 4)),
    pyint(SubSeq(s, 6, 7)))

\* YearCandidate, once cand is known
YearCandidate_cand(y, cand) ==
  IF y = None \/ cand = {} THEN None ELSE Some(SetMax(cand))

YearCandidate(y, dates_for_scan) ==
  YearCandidate_cand(y,
    {d \in dates_for_scan : Year(d) = y[1]})

\* a faulty resolution, which looks at the period-end before the year
_coerce_period_end_period_first(by_year, query_val, dN_from_data, s, by_month, by_yyyy) ==
  IF query_val # None /\ query_val[1] # <<>> /\ by_month # None THEN by_month[1]
  ELSE IF query_val # None /\ query_val[1] # <<>> /\ by_yyyy # None THEN by_yyyy[1]
  ELSE IF query_val # None /\ query_val[1] # <<>> /\ fromisoformat(s) # None
  THEN fromisoformat(s)[1]
  ELSE IF by_year # None THEN by_year[1]
  ELSE dN_from_data

\* _coerce_period_end, once by_month, by_yyyy are known
_coerce_period_end_by_month(by_year, query_val, dN_from_data, s, by_month, by_yyyy) ==
  IF by_year # None THEN by_year[1]
  ELSE IF query_val = None \/ query_val[1] = <<>> THEN dN_from_data
  ELSE IF by_month # None THEN by_month[1]
  ELSE IF by_yyyy # None THEN by_yyyy[1]
  ELSE IF fromisoformat(s) # None THEN fromisoformat(s)[1]
  ELSE dN_from_data

\* _coerce_period_end, once by_year, s are known
_coerce_period_end_by_year(dates_for_scan, query_val, dN_from_data, by_year, s) ==
  _coerce_period_end_by_month(by_year, query_val, dN_from_data, s,
    IF Len(s) = 7 /\ s[5] = "-" THEN MonthCandidate(s, dates_for_scan) ELSE None,
    IF IsYear(s) THEN YearCandidate(pyint(s), dates_for_scan) ELSE None)

\* query_val and year_qs are None or <<str>>
_coerce_period_end(dN_from_data, query_val, dates_for_scan, year_qs) ==
  _coerce_period_end_by_year(dates_for_scan, query_val, dN_from_data,
    IF year_qs # None /\ year_qs[1] # <<>>
    THEN YearCandidate(pyint(strip(year_qs[1])), dates_for_scan) ELSE None,
    IF query_val # None THEN strip(query_val[1]) ELSE <<>>)

_quarter_start(dt) == date(Year(dt), ((Month(dt) - 1) \div 3) * 3 + 1, 1)

_ytd_start(dt) == date(Year(dt), 1, 1)

\* a faulty window, whose end is not clamped
_bounds_for_basis_unclamped(end, dN, start) == [start |-> start, end |-> end]

\* _bounds_for_basis, once start is known
_bounds_for_basis_start(end, dN, start) ==
  [start |-> start, end |-> IF end > dN THEN dN ELSE end]

\* _bounds_for_basis, once end is known
_bounds_for_basis_end(b, d0, dN, end) ==
  _bounds_for_basis_start(end, dN,
    IF b = <<"l","a","t","e","s","t">> THEN end
    ELSE IF b = <<"i","n","c","e","p","t","i","o","n">> THEN d0
    ELSE IF b = <<"y","t","d">> THEN _ytd_start(end)
    ELSE IF b = <<"q","u","a","r","t","e","r">> THEN _quarter_start(end)
    ELSE IF b \in {<<"m","o","n","t","h">>, <<"d","a","y">>} THEN end
    ELSE d0)

\* _bounds_for_basis, once d0, dN, b are known
_bounds_for_basis_d0(period_end_qs, dates, year_qs, d0, dN, b) ==
  _bounds_for_basis_end(b, d0, dN,
    _coerce_period_end(dN, period_end_qs, dates, year_qs))

\* dates is non-empty; basis is a str
_bounds_for_basis(dates, basis, period_end_qs, year_qs) ==
  _bounds_for_basis_d0(period_end_qs, dates, year_qs,
    SetMin(dates),
    SetMax(dates),
    IF basis = <<>> THEN <<"i","n","c","e","p","t","i","o","n">> ELSE lower(basis))

\* without "years", which is days / 365.25 rounded
_span_dict(start_dt, end_dt) ==
  Some([start_date |-> start_dt, end_date |-> end_dt, days |-> end_dt - start_dt])

(***************************************************************************)
(* Ratios: a float quotient is the pair <<numerator, denominator>> in      *)
(* lowest terms with a positive denominator                                *)
(***************************************************************************)
Abs(n) == IF n < 0 THEN -n ELSE n

RECURSIVE Gcd(_, _)
Gcd(a, b) == IF b = 0 THEN a ELSE Gcd(b, a % b)

\* Ratio, once g, sg are known
Ratio_g(n, d, g, sg) ==
  <<(sg * n) \div g, (sg * d) \div g>>

Ratio(n, d) ==
  Ratio_g(n, d,
    Gcd(Abs(n), Abs(d)),
    IF d < 0 THEN -1 ELSE 1)

\* RoundRatio, once up is known
RoundRatio_up(q, scale, up) ==
  Ratio(IF up THEN q + 1 ELSE q, scale)

\* RoundRatio, once q, twice are known
RoundRatio_q(d, scale, q, twice) ==
  RoundRatio_up(q, scale,
    twice > d \/ (twice = d /\ q % 2 = 1))

\* RoundRatio, once scale is known
RoundRatio_scale(n, d, scale) ==
  RoundRatio_q(d, scale,
    (n * scale) \div d,
    2 * ((n * scale) % d))

\* round(n / d, digits) for d > 0, ties to even
RoundRatio(n, d, digits) ==
  RoundRatio_scale(n, d,
    IF digits = 2 THEN 100 ELSE 10000)

\* a faulty rate, which does not look at the sign of the initial value
_irr_from_span_any_initial(initial_value, current_value, start_dt, end_dt) ==
  IF end_dt - start_dt <= 0 THEN None
  ELSE Some(<<current_value, initial_value, end_dt - start_dt>>)

\* the annualised rate is kept as the triple it is computed from
_irr_from_span(initial_value, current_value, start_dt, end_dt) ==
  IF initial_value <= 0 THEN None
  ELSE IF end_dt - start_dt <= 0 THEN None
  ELSE Some(<<current_value, initial_value, end_dt - start_dt>>)

(***************************************************************************)
(* metrics_routes.py: sheet names                                          *)
(***************************************************************************)
\* the characters _WS_NORMALIZE_RE removes
WsNormalizeChars ==
  {" ", "\t", "\n", "NBSP", "-", "_", ".", "(", ")", "[", "]", "{", "}", "\\", "+"}

metrics_normalize_sheet_name(s) == lower(RemoveChars(FoldNoBreak(strip(s)), WsNormalizeChars))

\* FirstSheet, once hit is known
FirstSheet_hit(hit) ==
  IF hit = {} THEN 0 ELSE SetMin(hit)

\* the first sheet, in workbook order, that satisfies P; 0 when none does
FirstSheet(names, P(_)) ==
  FirstSheet_hit(
    {i \in 1..Len(names) : P(names[i])})

(***************************************************************************)
(* metrics_routes.py: openpyxl scan helpers (ws is the grid of values;     *)
(* ws.max_row is Len(ws) and ws.max_column is GridCols(ws))                *)
(***************************************************************************)
Min(a, b) == IF a < b THEN a ELSE b
Max(a, b) == IF a > b THEN a ELSE b

WsCell(ws, r, c) == CellAt(RowAt(ws, r), c)

_row_texts(ws, r, max_col) ==
  [c \in 1..max_col |->
     IF WsCell(ws, r, c).k = "none" THEN <<>> ELSE lower(strip(pystr(WsCell(ws, r, c))))]

TotalScanRows == 150
TotalLabelCols == 12

\* _scan_total_row_uploads, once hit is known
_scan_total_row_uploads_hit(hit) ==
  IF hit = {} THEN 0 ELSE SetMin(hit)

\* 0 stands for None
_scan_total_row_uploads(ws, start_row, max_scan_rows, label_cols) ==
  _scan_total_row_uploads_hit(
    {r \in start_row..Min(Len(ws), start_row + max_scan_rows) :
       \E c \in 1..Min(label_cols, GridCols(ws)) :
          /\ WsCell(ws, r, c).k = "str"
          /\ Contains(<<"t","o","t","a","l">>, lower(WsCell(ws, r, c).s))})

BlankRunStop == 3

RECURSIVE _sum_contiguous_block_uploads(_, _, _, _, _, _)
\* _sum_contiguous_block_uploads, once num is known
_sum_contiguous_block_uploads_num(blanks, blank_run_stop, total, ws, r, col, num) ==
  IF num = None
  THEN IF blanks + 1 >= blank_run_stop THEN total
       ELSE _sum_contiguous_block_uploads(ws, r + 1, col, blank_run_stop, blanks + 1, total)
  ELSE _sum_contiguous_block_uploads(ws, r + 1, col, blank_run_stop, 0, total + num[1])

_sum_contiguous_block_uploads(ws, r, col, blank_run_stop, blanks, total) ==
  IF r > Len(ws) THEN total
  ELSE _sum_contiguous_block_uploads_num(blanks, blank_run_stop, total, ws, r, col,
         _to_float(WsCell(ws, r, col)))

(***************************************************************************)
(* metrics_routes.py: _find_header_row_and_cols                            *)
(***************************************************************************)
AliasCols(texts, aliases) ==
  SelectSeq([i \in 1..Len(texts) |-> i], LAMBDA i : AnyAliasIn(aliases, _normhdr(texts[i])))

NoHeader == [asof_row |-> 0, asof_col |-> 0, beg_row |-> 0, beg_cols |-> <<>>,
             end_row |-> 0, end_cols |-> <<>>]

\* the scan of rows r .. ws.max_row with the accumulators found so far
RECURSIVE HeaderScan(_, _, _)
\* HeaderScan, once a3 is known
HeaderScan_a3(ws, r, a3) ==
  IF a3.end_cols # <<>> /\ a3.asof_col # 0 THEN a3 ELSE HeaderScan(ws, r + 1, a3)

\* HeaderScan, once a2 is known
HeaderScan_a2(bcols, r, ws, a2) ==
  HeaderScan_a3(ws, r,
    IF bcols # <<>>
    THEN [a2 EXCEPT !.beg_row = r, !.beg_cols = a2.beg_cols \o bcols] ELSE a2)

\* HeaderScan, once a1 is known
HeaderScan_a1(ecols, r, bcols, ws, a1) ==
  HeaderScan_a2(bcols, r, ws,
    IF ecols # <<>>
    THEN [a1 EXCEPT !.end_row = r, !.end_cols = a1.end_cols \o ecols] ELSE a1)

\* HeaderScan, once dcols, ecols, bcols are known
HeaderScan_dcols(acc, r, ws, dcols, ecols, bcols) ==
  HeaderScan_a1(ecols, r, bcols, ws,
    IF acc.asof_col = 0 /\ dcols # <<>>
    THEN [acc EXCEPT !.asof_row = r, !.asof_col = dcols[1]] ELSE acc)

\* HeaderScan, once texts is known
HeaderScan_texts(acc, r, ws, texts) ==
  HeaderScan_dcols(acc, r, ws,
    AliasCols(texts, _DATE_ALIASES_N),
    AliasCols(texts, _ENDING_ALIASES_N),
    AliasCols(texts, _BEGIN_ALIASES_N))

HeaderScan(ws, r, acc) ==
  IF r > Len(ws) THEN acc
  ELSE
    HeaderScan_texts(acc, r, ws,
      _row_texts(ws, r, GridCols(ws)))

_find_header_row_and_cols(ws) == HeaderScan(ws, 1, NoHeader)

(***************************************************************************)
(* The basis computation over the per-date totals, written twice in the    *)
(* source (_fast_overview and _compute_from_values)                        *)
(***************************************************************************)
MapGet(map, k) == IF k \in DOMAIN map THEN map[k] ELSE 0

RECURSIVE SumOver(_, _)
\* SumOver, once k is known
SumOver_k(map, S, k) ==
  map[k] + SumOver(map, S \ {k})

SumOver(map, S) ==
  IF S = {} THEN 0
  ELSE SumOver_k(map, S,
         CHOOSE x \in S : TRUE)

\* _latest_in_month, once cands is known
_latest_in_month_cands(cands) ==
  IF cands = {} THEN 0 ELSE SetMax(cands)

\* 0 stands for None: every date of a grid is a positive day number
_latest_in_month(all_dates, dt) ==
  _latest_in_month_cands(
    {d \in all_dates : Year(d) = Year(dt) /\ Month(d) = Month(dt)})

\* _sum_beg_in_month, once cands is known
_sum_beg_in_month_cands(date_to_beg, cands) ==
  IF cands = {} THEN None ELSE Some(SumOver(date_to_beg, cands))

_sum_beg_in_month(all_dates, date_to_beg, dt) ==
  _sum_beg_in_month_cands(date_to_beg,
    {d \in all_dates : Year(d) = Year(dt) /\ Month(d) = Month(dt)
                       /\ d \in DOMAIN date_to_beg})

\* _prev_month_latest, once cands is known
_prev_month_latest_cands(cands) ==
  IF cands = {} THEN 0 ELSE SetMax(cands)

\* _prev_month_latest, once y, m are known
_prev_month_latest_y(all_dates, y, m) ==
  _prev_month_latest_cands(
    {d \in all_dates : Year(d) = y /\ Month(d) = m})

_prev_month_latest(all_dates, dt) ==
  _prev_month_latest_y(all_dates,
    IF Month(dt) = 1 THEN Year(dt) - 1 ELSE Year(dt),
    IF Month(dt) = 1 THEN 12 ELSE Month(dt) - 1)

\* BasisValues, once ek, month_beg_total, prev_key are known
BasisValues_ek(date_to_end, all_dates, ek, month_beg_total, prev_key) ==
  IF ek = 0 THEN [ok |-> FALSE, initial_value |-> 0, current_value |-> 0]
  ELSE [ok |-> TRUE,
        current_value |-> MapGet(date_to_end, ek),
        initial_value |->
          IF month_beg_total # None THEN month_beg_total[1]
          ELSE IF prev_key = 0 THEN MapGet(date_to_end, SetMin(all_dates))
          ELSE MapGet(date_to_end, prev_key)]

\* BasisValues, once prev is known
BasisValues_prev(ek0, date_to_end, ek, has_beg, from, date_to_beg, before, prev) ==
  IF ek0 = 0 THEN [ok |-> FALSE, initial_value |-> 0, current_value |-> 0]
  ELSE [ok |-> TRUE,
        current_value |-> MapGet(date_to_end, ek),
        initial_value |->
          IF has_beg
          THEN IF from # {} THEN MapGet(date_to_beg, SetMin(from))
               ELSE IF before # {} THEN MapGet(date_to_end, SetMax(before)) ELSE 0
          ELSE IF prev # {} THEN MapGet(date_to_end, SetMax(prev)) ELSE 0]

\* BasisValues, once ek is known
BasisValues_ek2(all_dates, ek0, date_to_end, has_beg, from, date_to_beg, before, ek) ==
  BasisValues_prev(ek0, date_to_end, ek, has_beg, from, date_to_beg, before,
    {d \in all_dates : d < ek})

\* BasisValues, once upto is known
BasisValues_upto(ek0, date_to_end, all_dates, has_beg, from, date_to_beg, before, upto) ==
  BasisValues_ek2(all_dates, ek0, date_to_end, has_beg, from, date_to_beg, before,
    IF ek0 \in DOMAIN date_to_end THEN ek0
    ELSE IF upto # {} THEN SetMax(upto) ELSE SetMax(all_dates))

\* BasisValues, once ek0, from, before are known
BasisValues_ek0(all_dates, date_to_end, has_beg, date_to_beg, ek0, from, before) ==
  BasisValues_upto(ek0, date_to_end, all_dates, has_beg, from, date_to_beg, before,
    {d \in all_dates : d <= ek0})

\* [ok, initial_value, current_value]; ok = FALSE is an exception
BasisValues(all_dates, date_to_end, date_to_beg, has_beg, eff_basis, start_dt, end_dt) ==
  IF eff_basis = <<"m","o","n","t","h">>
  THEN
    BasisValues_ek(date_to_end, all_dates,
      _latest_in_month(all_dates, end_dt),
      IF has_beg THEN _sum_beg_in_month(all_dates, date_to_beg, end_dt)
      ELSE None,
      _prev_month_latest(all_dates, end_dt))
  ELSE
    BasisValues_ek0(all_dates, date_to_end, has_beg, date_to_beg,
      IF eff_basis \in {<<"y","t","d">>, <<"q","u","a","r","t","e","r">>}
      THEN _latest_in_month(all_dates, end_dt) ELSE end_dt,
      {d \in all_dates : d >= start_dt /\ d \in DOMAIN date_to_beg},
      {d \in all_dates : d < start_dt})

Failed == [ok |-> FALSE, data |-> <<>>]

(***************************************************************************)
(* metrics_routes.py: _fast_overview (the uploaded workbook)               *)
(***************************************************************************)
\* FastTargetSheet, once exact, near are known
FastTargetSheet_exact(exact, near) ==
  IF exact # 0 THEN exact ELSE near

\* FastTargetSheet, once names, want are known
FastTargetSheet_names(sheet_name, names, want) ==
  FastTargetSheet_exact(
    FirstSheet(names, LAMBDA n : n = sheet_name),
    FirstSheet(names, LAMBDA n : metrics_normalize_sheet_name(n) = want
                                 \/ Contains(want, metrics_normalize_sheet_name(n))))

\* a workbook is a sequence of [name, values]; 0 when the name resolves to no sheet
FastTargetSheet(wb, sheet_name) ==
  FastTargetSheet_names(sheet_name,
    [i \in 1..Len(wb) |-> wb[i].name],
    metrics_normalize_sheet_name(sheet_name))

\* the rows below the as-of header whose date is sane, summed per date
RECURSIVE DateTotals(_, _, _, _, _)
\* DateTotals, once d, v are known
DateTotals_d(ws, r, asof_col, col, acc, d, v) ==
  DateTotals(ws, r + 1, asof_col, col,
    IF _is_sane_date(d) /\ v # None
    THEN PutTotals(acc, d[1], MapGet(acc, d[1]) + v[1]) ELSE acc)

DateTotals(ws, r, asof_col, col, acc) ==
  IF r > Len(ws) THEN acc
  ELSE
    DateTotals_d(ws, r, asof_col, col, acc,
      _parse_excel_date(WsCell(ws, r, asof_col)),
      _to_float(WsCell(ws, r, col)))

IsWordChar(c) ==
  IsDigit(c) \/ c = "_" \/ \E i \in 1..Len(LowerCase) : LowerCase[i] = c \/ UpperCase[i] = c

\* re.search(r"\bw\b", t)
HasWord(w, t) ==
  \E i \in 0..(Len(t) - Len(w)) :
     /\ SubSeq(t, i + 1, i + Len(w)) = w
     /\ (i = 0 \/ ~IsWordChar(t[i]))
     /\ (i + Len(w) = Len(t) \/ ~IsWordChar(t[i + Len(w) + 1]))

FallbackScanRows == 300
CommittedScanRows == 1000

Money(cur, ini) ==
  [moic |-> IF ini # None /\ ini[1] # 0 THEN Some(Ratio(cur, ini[1])) ELSE None,
   roi_pct |-> IF ini # None /\ ini[1] # 0 THEN Some(Ratio((cur - ini[1]) * 100, ini[1]))
               ELSE None]

\* FastFallback, once current_value, initial_value are known
FastFallback_current_value(ending_row, basis, target_name, current_value, initial_value) ==
  IF ending_row = 0 THEN Failed
  ELSE [ok |-> TRUE,
        data |-> [basis |-> basis, period_end |-> None, sheet |-> target_name,
                  source |-> None, initial_value |-> initial_value,
                  current_value |-> Some(current_value),
                  moic |-> Money(current_value, initial_value).moic,
                  roi_pct |-> Money(current_value, initial_value).roi_pct,
                  irr_pct |-> None, time_span |-> None]]

\* FastFallback, once cv, acc, below are known
FastFallback_cv(total_row, ws, ending_row, target_ending_col, committed_row, cm_total_row,
    basis, target_name, cv, acc, below) ==
  FastFallback_current_value(ending_row, basis, target_name,
    IF total_row # 0 THEN (IF cv = None THEN 0 ELSE cv[1])
    ELSE _sum_contiguous_block_uploads(ws, ending_row + 1, target_ending_col,
                                       BlankRunStop, 0, 0),
    IF committed_row = 0 THEN None
    ELSE IF cm_total_row # 0 /\ acc # None THEN acc
    ELSE IF below # {} THEN Some(SetMax(below)) ELSE None)

\* FastFallback, once target_ending_col, total_row, ccol, cm_total_row are known
FastFallback_target_ending_col(ws, committed_row, ending_row, basis, target_name,
    target_ending_col, total_row, ccol, cm_total_row) ==
  FastFallback_cv(total_row, ws, ending_row, target_ending_col, committed_row, cm_total_row,
    basis, target_name,
    _to_float(WsCell(ws, total_row, target_ending_col)),
    _to_float(WsCell(ws, cm_total_row, ccol)),
    {_to_float(WsCell(ws, rr, ccol))[1] :
       rr \in {q \in (committed_row + 1)..Min(Len(ws), committed_row + CommittedScanRows) :
                 _to_float(WsCell(ws, q, ccol)) # None}})

\* FastFallback, once ending_row, committed_row are known
FastFallback_ending_row(eb, ws, cm, basis, target_name, ending_row, committed_row) ==
  FastFallback_target_ending_col(ws, committed_row, ending_row, basis, target_name,
    eb[ending_row][Len(eb[ending_row])],
    _scan_total_row_uploads(ws, ending_row + 1, TotalScanRows, TotalLabelCols),
    cm[committed_row][Len(cm[committed_row])],
    _scan_total_row_uploads(ws, committed_row + 1, TotalScanRows, TotalLabelCols))

\* FastFallback, once erows, crows are known
FastFallback_erows(eb, ws, cm, basis, target_name, erows, crows) ==
  FastFallback_ending_row(eb, ws, cm, basis, target_name,
    IF erows = {} THEN 0 ELSE SetMin(erows),
    IF crows = {} THEN 0 ELSE SetMin(crows))

\* FastFallback, once eb, cm are known
FastFallback_eb(rows, ws, basis, target_name, eb, cm) ==
  FastFallback_erows(eb, ws, cm, basis, target_name,
    {r \in rows : eb[r] # <<>>},
    {r \in rows : cm[r] # <<>>})

\* FastFallback, once rows, max_scan_cols are known
FastFallback_rows(ws, basis, target_name, rows, max_scan_cols) ==
  FastFallback_eb(rows, ws, basis, target_name,
    [r \in rows |->
       SelectSeq([i \in 1..max_scan_cols |-> i],
         LAMBDA i : Contains(<<"e","n","d","i","n","g"," ","b","a","l","a","n","c","e">>, _row_texts(ws, r, max_scan_cols)[i]))],
    [r \in rows |->
       SelectSeq([i \in 1..max_scan_cols |-> i],
         LAMBDA i : \/ HasWord(<<"c","o","m","m","i","t","t","e","d">>, _row_texts(ws, r, max_scan_cols)[i])
                    \/ HasWord(<<"c","o","m","m","i","t","m","e","n","t">>, _row_texts(ws, r, max_scan_cols)[i]))])

\* the branch taken when no dated ending value was found
FastFallback(ws, target_name, basis) ==
  FastFallback_rows(ws, basis, target_name,
    1..Min(FallbackScanRows, Len(ws)),
    Min(FallbackScanRows, GridCols(ws)))

\* _fast_overview, once v is known
_fast_overview_v(h, date_to_end, ws, wb, t, basis, eff_basis, bounds, v) ==
  IF h.end_cols = <<>> THEN Failed
  ELSE IF DOMAIN date_to_end = {} THEN FastFallback(ws, wb[t].name, basis)
  ELSE IF ~v.ok THEN Failed
  ELSE [ok |-> TRUE,
        data |-> [basis |-> eff_basis, period_end |-> Some(isoformat(bounds.end)),
                  sheet |-> wb[t].name, source |-> None,
                  initial_value |-> Some(v.initial_value),
                  current_value |-> Some(v.current_value),
                  moic |-> Money(v.current_value, Some(v.initial_value)).moic,
                  roi_pct |-> Money(v.current_value, Some(v.initial_value)).roi_pct,
                  irr_pct |-> IF v.initial_value # 0
                              THEN _irr_from_span(v.initial_value, v.current_value,
                                                  bounds.start, bounds.end)
                              ELSE None,
                  time_span |-> _span_dict(bounds.start, bounds.end)]]

\* _fast_overview, once bounds is known
_fast_overview_bounds(all_dates, date_to_end, date_to_beg, has_beg, eff_basis, h, ws, wb, t,
    basis, bounds) ==
  _fast_overview_v(h, date_to_end, ws, wb, t, basis, eff_basis, bounds,
    BasisValues(all_dates, date_to_end, date_to_beg, has_beg, eff_basis,
                bounds.start, bounds.end))

\* _fast_overview, once all_dates is known
_fast_overview_all_dates(basis, period_end_qs, year_qs, date_to_end, date_to_beg, has_beg,
    eff_basis, h, ws, wb, t, all_dates) ==
  _fast_overview_bounds(all_dates, date_to_end, date_to_beg, has_beg, eff_basis, h, ws, wb, t,
    basis,
    _bounds_for_basis(all_dates, basis, period_end_qs, year_qs))

\* _fast_overview, once date_to_end, date_to_beg are known
_fast_overview_date_to_end(basis, period_end_qs, year_qs, has_beg, eff_basis, h, ws, wb, t,
    date_to_end, date_to_beg) ==
  _fast_overview_all_dates(basis, period_end_qs, year_qs, date_to_end, date_to_beg, has_beg,
    eff_basis, h, ws, wb, t,
    (DOMAIN date_to_end) \cup (DOMAIN date_to_beg))

\* _fast_overview, once target_end_col, has_beg, target_beg_col, first are known
_fast_overview_target_end_col(h, ws, basis, period_end_qs, year_qs, eff_basis, wb, t,
    target_end_col, has_beg, target_beg_col, first) ==
  _fast_overview_date_to_end(basis, period_end_qs, year_qs, has_beg, eff_basis, h, ws, wb, t,
    IF h.asof_col # 0
    THEN DateTotals(ws, first, h.asof_col, target_end_col, <<>>) ELSE <<>>,
    IF h.asof_col # 0 /\ has_beg
    THEN DateTotals(ws, first, h.asof_col, target_beg_col, <<>>) ELSE <<>>)

\* _fast_overview, once h is known
_fast_overview_h(ws, basis, period_end_qs, year_qs, eff_basis, wb, t, h) ==
  _fast_overview_target_end_col(h, ws, basis, period_end_qs, year_qs, eff_basis, wb, t,
    h.end_cols[Len(h.end_cols)],
    h.beg_cols # <<>>,
    h.beg_cols[Len(h.beg_cols)],
    (IF h.asof_row = 0 THEN 1 ELSE h.asof_row) + 1)

\* _fast_overview, once ws, eff_basis are known
_fast_overview_ws(basis, period_end_qs, year_qs, wb, t, ws, eff_basis) ==
  _fast_overview_h(ws, basis, period_end_qs, year_qs, eff_basis, wb, t,
    _find_header_row_and_cols(ws))

\* _fast_overview, once t is known
_fast_overview_t(wb, basis, period_end_qs, year_qs, t) ==
  IF t = 0 THEN Failed
  ELSE
    _fast_overview_ws(basis, period_end_qs, year_qs, wb, t,
      wb[t].values,
      IF basis = <<"l","a","t","e","s","t">> THEN <<"m","o","n","t","h">> ELSE basis)

\* [ok, data]: ok = FALSE is an exception raised to the caller
_fast_overview(wb, sheet_name, basis, period_end_qs, year_qs) ==
  _fast_overview_t(wb, basis, period_end_qs, year_qs,
    FastTargetSheet(wb, sheet_name))

(***************************************************************************)
(* metrics_routes.py: _compute_from_values (the usedRange of a SharePoint  *)
(* sheet: a rectangular grid of numbers, strings and nulls)                *)
(***************************************************************************)
HeaderSearchRows == 50

\* str(c).strip().lower() if c is not None else ""
CellLower(c) == IF c.k = "none" THEN <<>> ELSE lower(strip(pystr(c)))

IsBalanceHeader(t) ==
  \/ (Contains(<<"e","n","d","i","n","g">>, t) /\ Contains(<<"b","a","l","a","n","c","e">>, t))
  \/ (Contains(<<"c","u","r","r","e","n","t">>, t) /\ Contains(<<"v","a","l","u","e">>, t))

\* ComputeHeaderRow, once hit is known
ComputeHeaderRow_hit(hit) ==
  IF hit = {} THEN 1 ELSE SetMin(hit)

\* header_row_idx + 1
ComputeHeaderRow(values) ==
  ComputeHeaderRow_hit(
    {i \in 1..Min(HeaderSearchRows, Len(values)) :
       \E c \in 1..Len(values[i]) : IsBalanceHeader(CellLower(values[i][c]))})

\* _find_last_index, once hit is known
_find_last_index_hit(hit) ==
  IF hit = {} THEN 0 ELSE SetMax(hit)

\* 0 stands for None
_find_last_index(headers_norm, cands_norm) ==
  _find_last_index_hit(
    {i \in 1..Len(headers_norm) : AnyAliasIn(cands_norm, headers_norm[i])})

\* _to_num, once s is known
_to_num_s(s) ==
  pyfloat(s)

\* _to_num, once s0 is known
_to_num_s0(s0) ==
  _to_num_s(
    IF StartsWith(s0, <<"(">>) /\ s0[Len(s0)] = ")"
    THEN <<"-">> \o SubSeq(s0, 2, Len(s0) - 1) ELSE s0)

_to_num(x) ==
  IF x.k = "none" THEN None
  ELSE IF x.k = "num" THEN Some(x.n)
  ELSE _to_num_s0(
         RemoveChars(strip(pystr(x)), {",", "$"}))

\* _coerce_dates_series, once d is known
_coerce_dates_series_d(d) ==
  IF _is_sane_date(d) THEN d ELSE None

\* _coerce_dates_series, once n is known
_coerce_dates_series_n(x, n) ==
  _coerce_dates_series_d(
    IF n # None /\ SerialLow <= n[1] /\ n[1] <= SerialHigh THEN n
    ELSE FirstParse(strip(pystr(x)),
           << <<"%m", "/", "%d", "/", "%Y">>, <<"%Y", "-", "%m", "-", "%d">>,
              <<"%m", "/", "%d", "/", "%y">>, <<"%d", "/", "%m", "/", "%Y">>,
              <<"%d", "-", "%b", "-", "%Y">> >>))

\* one element of the series: a serial between 20000 and 90000, else the first
\* of the five formats that parses the text, then the sanity filter; text that
\* only the generic parser of pandas would read is outside the grids modelled
_coerce_dates_series(x) ==
  _coerce_dates_series_n(x,
    IF x.k = "num" THEN Some(x.n) ELSE IF x.k = "str" THEN pyfloat(x.s) ELSE None)

AutoDateMinHits == 4

\* hits / max(1, n) >= 0.35
RatioOk(hits, n) == hits * 100 >= 35 * Max(1, n)

\* _auto_date_index, once best is known
_auto_date_index_best(ok, best) ==
  IF ok = {} THEN 0 ELSE SetMin(best)

\* _auto_date_index, once ok is known
_auto_date_index_ok(hits, ok) ==
  _auto_date_index_best(ok,
    {i \in ok : \A j \in ok : hits[j] <= hits[i]})

\* _auto_date_index, once hits is known
_auto_date_index_hits(ncols, exclude_idx, records, hits) ==
  _auto_date_index_ok(hits,
    {i \in (1..ncols) \ exclude_idx :
       hits[i] >= AutoDateMinHits /\ RatioOk(hits[i], Len(records))})

\* 0 stands for None
_auto_date_index(records, ncols, exclude_idx) ==
  _auto_date_index_hits(ncols, exclude_idx, records,
    [i \in 1..ncols |->
       Cardinality({r \in 1..Len(records) :
                      _coerce_dates_series(CellAt(records[r], i)) # None})])

ControlScanRows == 40
ControlScanCols == 80

ControlLabels == {<<"e","n","d","i","n","g","d","a","t","e">>, <<"a","s","o","f","d","a","t","e">>, <<"a","s","o","f">>, <<"p","e","r","i","o","d">>, <<"m","o","n","t","h">>, <<"d","a","t","e">>}

RECURSIVE JoinSeqs(_)
JoinSeqs(ss) == IF ss = <<>> THEN <<>> ELSE Head(ss) \o JoinSeqs(Tail(ss))

ControlSane(values, r, c) == _is_sane_date(_parse_excel_date(values[r][c]))

\* the normalised texts of the cells from two to the left to two to the right
ControlNeighbours(values, r, c) ==
  JoinSeqs([k \in 1..5 |->
              IF c + k - 3 >= 1 /\ c + k - 3 <= Len(values[r])
              THEN _normhdr(IF values[r][c + k - 3].k = "none" THEN <<>>
                            ELSE pystr(values[r][c + k - 3]))
              ELSE <<>>])

\* ControlDate, once first is known
ControlDate_first(labelled, values, found, first) ==
  IF labelled # {} THEN _parse_excel_date(values[first[1]][first[2]])
  ELSE IF found # {} THEN Some(SetMax(found)) ELSE None

\* ControlDate, once labelled is known
ControlDate_labelled(values, found, labelled) ==
  ControlDate_first(labelled, values, found,
    CHOOSE p \in labelled :
      \A q \in labelled : p[1] < q[1] \/ (p[1] = q[1] /\ p[2] <= q[2]))

\* ControlDate, once max_c, found are known
ControlDate_max_c(max_r, values, header_row, max_c, found) ==
  ControlDate_labelled(values, found,
    {p \in (1..max_r) \X (1..max_c) :
       /\ p[2] <= Len(values[p[1]])
       /\ ControlSane(values, p[1], p[2])
       /\ (AnyAliasIn(ControlLabels, ControlNeighbours(values, p[1], p[2]))
             \/ header_row > p[1])})

\* ControlDate, once max_r is known
ControlDate_max_r(values, header_row, max_r) ==
  ControlDate_max_c(max_r, values, header_row,
    Min(ControlScanCols, GridCols(SubSeq(values, 1, max_r))),
    {_parse_excel_date(values[p[1]][p[2]])[1] :
       p \in {q \in (1..max_r) \X (1..GridCols(values)) :
                q[2] <= Len(values[q[1]]) /\ ControlSane(values, q[1], q[2])}})

\* None when no cell of the first rows holds a sane date
ControlDate(values, header_row) ==
  ControlDate_max_r(values, header_row,
    Min(ControlScanRows, Len(values)))

\* GroupSum, once nums is known
GroupSum_nums(days, col, nums) ==
  [d \in days |-> SumOver([r \in nums[d] |-> col[r][1]], nums[d])]

\* GroupSum, once days is known
GroupSum_days(rows, dt, col, days) ==
  GroupSum_nums(days, col,
    [d \in days |-> {r \in rows : dt[r] = d /\ col[r] # None}])

\* per date: the sum of the column's numbers, 0 when the date has none
GroupSum(rows, dt, col) ==
  GroupSum_days(rows, dt, col,
    {dt[r] : r \in rows})

\* _compute_from_values, once nonzero is known
_compute_from_values_nonzero(records, end_i, date_i, control_date, work, v, eff_basis, bounds,
    sheet_name, nonzero) ==
  IF records = <<>> \/ end_i = 0 THEN Failed
  ELSE IF date_i = 0 /\ control_date = None THEN Failed
  ELSE IF work = {} THEN Failed
  ELSE IF ~v.ok THEN Failed
  ELSE [ok |-> TRUE,
        data |-> [basis |-> eff_basis, period_end |-> Some(isoformat(bounds.end)),
                  sheet |-> sheet_name, source |-> Some("sharepoint-live"),
                  initial_value |-> Some(v.initial_value),
                  current_value |-> Some(v.current_value),
                  moic |-> IF nonzero
                           THEN Some(RoundRatio(
                                  (IF v.initial_value < 0 THEN -1 ELSE 1) * v.current_value,
                                  Abs(v.initial_value), 4))
                           ELSE None,
                  roi_pct |-> IF nonzero
                              THEN Some(RoundRatio(
                                     (IF v.initial_value < 0 THEN -1 ELSE 1)
                                       * (v.current_value - v.initial_value) * 100,
                                     Abs(v.initial_value), 2))
                              ELSE None,
                  irr_pct |-> IF nonzero
                              THEN _irr_from_span(v.initial_value, v.current_value,
                                                  bounds.start, bounds.end)
                              ELSE None,
                  time_span |-> _span_dict(bounds.start, bounds.end)]]

\* _compute_from_values, once v is known
_compute_from_values_v(records, end_i, date_i, control_date, work, eff_basis, bounds,
    sheet_name, v) ==
  _compute_from_values_nonzero(records, end_i, date_i, control_date, work, v, eff_basis, bounds,
    sheet_name,
    v.initial_value # 0)

\* _compute_from_values, once bounds is known
_compute_from_values_bounds(unique_dates, end_by_date, beg_by_date, eff_basis, records, end_i,
    date_i, control_date, work, sheet_name, bounds) ==
  _compute_from_values_v(records, end_i, date_i, control_date, work, eff_basis, bounds,
    sheet_name,
    BasisValues(unique_dates, end_by_date, beg_by_date, DOMAIN beg_by_date # {},
                eff_basis, bounds.start, bounds.end))

\* _compute_from_values, once unique_dates is known
_compute_from_values_unique_dates(basis, period_end_qs, year_qs, end_by_date, beg_by_date,
    eff_basis, records, end_i, date_i, control_date, work, sheet_name, unique_dates) ==
  _compute_from_values_bounds(unique_dates, end_by_date, beg_by_date, eff_basis, records, end_i,
    date_i, control_date, work, sheet_name,
    _bounds_for_basis(unique_dates, basis, period_end_qs, year_qs))

\* _compute_from_values, once end_by_date, beg_by_date are known
_compute_from_values_end_by_date(basis, period_end_qs, year_qs, eff_basis, records, end_i,
    date_i, control_date, work, sheet_name, end_by_date, beg_by_date) ==
  _compute_from_values_unique_dates(basis, period_end_qs, year_qs, end_by_date, beg_by_date,
    eff_basis, records, end_i, date_i, control_date, work, sheet_name,
    (DOMAIN end_by_date) \cup (DOMAIN beg_by_date))

\* _compute_from_values, once dt is known
_compute_from_values_dt(work, ends, beg_i, begs, basis, period_end_qs, year_qs, eff_basis,
    records, end_i, date_i, control_date, sheet_name, dt) ==
  _compute_from_values_end_by_date(basis, period_end_qs, year_qs, eff_basis, records, end_i,
    date_i, control_date, work, sheet_name,
    GroupSum(work, dt, ends),
    IF beg_i # 0 THEN GroupSum(work, dt, begs) ELSE <<>>)

\* _compute_from_values, once work is known
_compute_from_values_work(dts, ends, beg_i, begs, basis, period_end_qs, year_qs, eff_basis,
    records, end_i, date_i, control_date, sheet_name, work) ==
  _compute_from_values_dt(work, ends, beg_i, begs, basis, period_end_qs, year_qs, eff_basis,
    records, end_i, date_i, control_date, sheet_name,
    [r \in work |-> dts[r][1]])

\* _compute_from_values, once dts is known
_compute_from_values_dts(records, ends, begs, beg_i, basis, period_end_qs, year_qs, eff_basis,
    end_i, date_i, control_date, sheet_name, dts) ==
  _compute_from_values_work(dts, ends, beg_i, begs, basis, period_end_qs, year_qs, eff_basis,
    records, end_i, date_i, control_date, sheet_name,
    {r \in 1..Len(records) : (ends[r] # None \/ begs[r] # None) /\ dts[r] # None})

\* _compute_from_values, once control_date is known
_compute_from_values_control_date(records, date_i, ends, begs, beg_i, basis, period_end_qs,
    year_qs, eff_basis, end_i, sheet_name, control_date) ==
  _compute_from_values_dts(records, ends, begs, beg_i, basis, period_end_qs, year_qs, eff_basis,
    end_i, date_i, control_date, sheet_name,
    [r \in 1..Len(records) |->
       IF date_i # 0 THEN _coerce_dates_series(CellAt(records[r], date_i))
       ELSE control_date])

\* _compute_from_values, once date_i, ends, begs are known
_compute_from_values_date_i(values, hdr, records, beg_i, basis, period_end_qs, year_qs,
    eff_basis, end_i, sheet_name, date_i, ends, begs) ==
  _compute_from_values_control_date(records, date_i, ends, begs, beg_i, basis, period_end_qs,
    year_qs, eff_basis, end_i, sheet_name,
    IF date_i = 0 THEN ControlDate(values, hdr) ELSE None)

\* _compute_from_values, once end_i, beg_i, by_alias are known
_compute_from_values_end_i(records, headers_raw, values, hdr, basis, period_end_qs, year_qs,
    eff_basis, sheet_name, end_i, beg_i, by_alias) ==
  _compute_from_values_date_i(values, hdr, records, beg_i, basis, period_end_qs, year_qs,
    eff_basis, end_i, sheet_name,
    IF by_alias # 0 THEN by_alias
    ELSE _auto_date_index(records, Len(headers_raw), {end_i, beg_i}),
    [r \in 1..Len(records) |-> _to_num(CellAt(records[r], end_i))],
    [r \in 1..Len(records) |->
       IF beg_i # 0 THEN _to_num(CellAt(records[r], beg_i)) ELSE None])

\* _compute_from_values, once headers_norm is known
_compute_from_values_headers_norm(records, headers_raw, values, hdr, basis, period_end_qs,
    year_qs, eff_basis, sheet_name, headers_norm) ==
  _compute_from_values_end_i(records, headers_raw, values, hdr, basis, period_end_qs, year_qs,
    eff_basis, sheet_name,
    _find_last_index(headers_norm, _ENDING_ALIASES_N),
    _find_last_index(headers_norm, _BEGIN_ALIASES_N),
    _find_last_index(headers_norm, _DATE_ALIASES_N))

\* _compute_from_values, once headers_raw, records are known
_compute_from_values_headers_raw(values, hdr, basis, period_end_qs, year_qs, eff_basis,
    sheet_name, headers_raw, records) ==
  _compute_from_values_headers_norm(records, headers_raw, values, hdr, basis, period_end_qs,
    year_qs, eff_basis, sheet_name,
    [c \in 1..Len(headers_raw) |-> _normhdr(headers_raw[c])])

\* _compute_from_values, once hdr, eff_basis are known
_compute_from_values_hdr(values, basis, period_end_qs, year_qs, sheet_name, hdr, eff_basis) ==
  _compute_from_values_headers_raw(values, hdr, basis, period_end_qs, year_qs, eff_basis,
    sheet_name,
    [c \in 1..Len(values[hdr]) |->
       IF values[hdr][c].k = "none" THEN <<>>
       ELSE strip(pystr(values[hdr][c]))],
    SubSeq(values, hdr + 1, Len(values)))

\* [ok, data]: ok = FALSE is the RuntimeError (or pandas error) raised to the route
_compute_from_values(values, sheet_name, basis, period_end_qs, year_qs) ==
  IF Len(values) < 2 THEN Failed
  ELSE
    _compute_from_values_hdr(values, basis, period_end_qs, year_qs, sheet_name,
      ComputeHeaderRow(values),
      IF basis = <<"l","a","t","e","s","t">> THEN <<"m","o","n","t","h">> ELSE basis)

(***************************************************************************)
(* Workbooks of the model: a workbook is a sequence of sheets [name,       *)
(* values]                                                                 *)
(***************************************************************************)
DefaultSheet == <<"b","C","A","S"," ","(","Q","4"," ","A","d","j",")">>

Sheet(name, values) == [name |-> name, values |-> values]

Blank == Str(<<>>)

\* the three-row grid with the label in the first column only
ClaimGrid ==
  << <<Str(<<"E","n","d","i","n","g"," ","B","a","l","a","n","c","e">>), Blank, Blank>>,
     <<Blank, Str(<<"J","a","n","-","2","4">>), Str(<<"F","e","b","-","2","4">>)>>,
     <<Str(<<"F","u","n","d"," ","A">>), Num(1000), Num(1100)>> >>

\* the same three rows with the label above every month column
LabelledGrid ==
  << <<Blank, Str(<<"E","n","d","i","n","g"," ","B","a","l","a","n","c","e">>), Str(<<"E","n","d","i","n","g"," ","B","a","l","a","n","c","e">>)>>,
     <<Blank, Str(<<"J","a","n","-","2","4">>), Str(<<"F","e","b","-","2","4">>)>>,
     <<Str(<<"F","u","n","d"," ","A">>), Num(1000), Num(1100)>> >>

\* identifier and name columns, partner rows and a Total row; other values,
\* mid-month dates, two columns of one month
RevisedGrid ==
  << <<NoneCell, NoneCell, Str(<<"E","n","d","i","n","g"," ","B","a","l","a","n","c","e">>), Str(<<" ","e","n","d","i","n","g"," "," ","b","a","l","a","n","c","e"," ">>),
       Str(<<"M","a","n","a","g","e","m","e","n","t"," ","F","e","e","s">>), Str(<<"E","n","d","i","n","g"," ","B","a","l","a","n","c","e">>)>>,
     <<Str(<<"I","D">>), Str(<<"N","a","m","e">>), DateCell(date(2024, 1, 15)), Str(<<"0","2","/","1","5","/","2","0","2","4">>),
       Str(<<"2","0","2","4","-","0","2","-","1","5">>), Num(45351)>>,
     <<Num(1), Str(<<"F","u","n","d"," ","A">>), Str(<<"(","9","0","0",")">>), Str(<<"$","1",",","2","0","0">>), Num(5), Num(1250)>>,
     <<Num(2), Str(<<"F","u","n","d"," ","B">>), Num(100), Str(<<"EMDASH">>), NoneCell, Num(50)>>,
     <<NoneCell, Str(<<"T","o","t","a","l">>), Num(-800), Num(1200), Num(5), Num(1300)>> >>

\* no row with two dates
HeaderlessGrid ==
  << <<Str(<<"E","n","d","i","n","g"," ","B","a","l","a","n","c","e">>), Blank>>,
     <<Str(<<"F","u","n","d"," ","A">>), Num(1000)>> >>

\* month columns under a fees label; no cell holds an ending-balance label
FeesOnlyGrid ==
  << <<Blank, Str(<<"M","a","n","a","g","e","m","e","n","t"," ","F","e","e","s">>), Str(<<"M","a","n","a","g","e","m","e","n","t"," ","F","e","e","s">>)>>,
     <<Blank, Str(<<"J","a","n","-","2","4">>), Str(<<"F","e","b","-","2","4">>)>>,
     <<Str(<<"F","u","n","d"," ","A">>), Num(5), Num(6)>> >>

InvestmentsGrid ==
  << <<Str(<<"I","n","v","e","s","t","m","e","n","t","s">>), Blank>>,
     <<Str(<<"A","l","p","h","a"," ","L","P">>), Num(10)>> >>

UploadBooks ==
  << <<Sheet(DefaultSheet, ClaimGrid)>>,
     <<Sheet(<<"M","a","s","t","e","r">>, InvestmentsGrid), Sheet(DefaultSheet, LabelledGrid)>>,
     <<Sheet(DefaultSheet, RevisedGrid)>>,
     <<Sheet(DefaultSheet, HeaderlessGrid)>>,
     <<Sheet(DefaultSheet, FeesOnlyGrid)>> >>

\* the (workbook, sheet field) pairs of the upload requests
UploadRequests ==
  << [book |-> 1, sheet |-> DefaultSheet],
     [book |-> 2, sheet |-> DefaultSheet],
     [book |-> 2, sheet |-> <<>>],
     [book |-> 2, sheet |-> <<"b","c","a","s"," ","q","4">>],
     [book |-> 3, sheet |-> DefaultSheet],
     [book |-> 4, sheet |-> DefaultSheet],
     [book |-> 5, sheet |-> DefaultSheet] >>

\* usedRange values: dates are serials or text
TotalRowGrid ==
  << <<NoneCell, NoneCell, Str(<<"E","n","d","i","n","g"," ","B","a","l","a","n","c","e">>), Str(<<"E","n","d","i","n","g"," ","B","a","l","a","n","c","e">>)>>,
     <<Str(<<"I","D">>), Str(<<"N","a","m","e">>), Num(45322), Str(<<"0","2","/","1","5","/","2","0","2","4">>)>>,
     <<Num(1), Str(<<"F","u","n","d"," ","A">>), Num(700), Num(800)>>,
     <<NoneCell, Str(<<"T","o","t","a","l">>), Num(700), Num(800)>> >>

LabelRowGrid ==
  << <<Str(<<"P","e","r","i","o","d">>), Str(<<"0","1","/","3","1","/","2","0","2","4">>), Str(<<"0","2","/","2","9","/","2","0","2","4">>)>>,
     <<Str(<<"B","e","g","i","n","n","i","n","g"," ","B","a","l","a","n","c","e">>), Num(650), NoneCell>>,
     <<Str(<<"E","n","d","i","n","g"," ","B","a","l","a","n","c","e">>), Num(700), Num(800)>>,
     <<Str(<<"M","a","n","a","g","e","m","e","n","t"," ","F","e","e","s">>), Num(3), Num(4)>> >>

RemoteLedgerGrid ==
  << <<Str(<<"A","s"," ","O","f"," ","D","a","t","e">>), Str(<<"B","e","g","i","n","n","i","n","g"," ","B","a","l","a","n","c","e">>), Str(<<"E","n","d","i","n","g"," ","B","a","l","a","n","c","e">>)>>,
     <<Num(45322), Num(500), Num(600)>>,
     <<Num(45351), Num(600), Num(660)>> >>

RemoteBooks ==
  << <<Sheet(DefaultSheet, TotalRowGrid)>>,
     <<Sheet(DefaultSheet, LabelRowGrid)>>,
     <<Sheet(DefaultSheet, RemoteLedgerGrid)>> >>

\* a dated ledger: one row per valuation date
LedgerGrid ==
  << <<Str(<<"A","s"," ","O","f"," ","D","a","t","e">>), Str(<<"B","e","g","i","n","n","i","n","g"," ","B","a","l","a","n","c","e">>), Str(<<"E","n","d","i","n","g"," ","B","a","l","a","n","c","e">>)>>,
     <<DateCell(date(2024, 1, 31)), Num(1000), Num(1050)>>,
     <<DateCell(date(2024, 2, 29)), Num(1050), Num(1100)>>,
     <<Str(<<"0","3","/","1","5","/","2","0","2","4">>), Num(1100), Num(1210)>> >>

LedgerGridEdited ==
  << <<Str(<<"A","s"," ","O","f"," ","D","a","t","e">>), Str(<<"B","e","g","i","n","n","i","n","g"," ","B","a","l","a","n","c","e">>), Str(<<"E","n","d","i","n","g"," ","B","a","l","a","n","c","e">>)>>,
     <<DateCell(date(2024, 1, 31)), Num(1000), Num(1050)>>,
     <<DateCell(date(2024, 2, 29)), Num(1050), Num(1300)>> >>

LocalBooks ==
  << <<Sheet(DefaultSheet, LedgerGrid)>>,
     <<Sheet(DefaultSheet, LedgerGridEdited)>>,
     <<Sheet(DefaultSheet, InvestmentsGrid)>> >>

\* the query strings of the overview requests
OverviewRequests ==
  << [sheet |-> DefaultSheet, basis |-> <<"i","n","c","e","p","t","i","o","n">>, period_end |-> None, year |-> None],
     [sheet |-> DefaultSheet, basis |-> <<"m","o","n","t","h">>, period_end |-> Some(<<"2","0","2","4","-","0","2">>),
      year |-> None],
     [sheet |-> DefaultSheet, basis |-> <<"y","t","d">>, period_end |-> Some(<<"2","0","2","4","-","0","2","-","1","0">>),
      year |-> None],
     [sheet |-> <<"b","c","a","s"," ","q","4">>, basis |-> <<"l","a","t","e","s","t">>, period_end |-> None,
      year |-> Some(<<"2","0","2","4">>)] >>

(***************************************************************************)
(* models.py: PortfolioPeriodMetric, UniqueConstraint("sheet",             *)
(* "as_of_date"); the table is the set of its rows                         *)
(***************************************************************************)
FinancialColumns ==
  {"beginning_balance", "ending_balance", "unrealized_gain_loss", "realized_gain_loss",
   "management_fees"}

KeyOf(r) == <<r.sheet, r.as_of_date>>

\* the autoincrement primary key
NextId(rows) == IF rows = {} THEN 1 ELSE SetMax({r.id : r \in rows}) + 1

\* the VALUES of an insert built from one month's totals
ValuesRow(sheet, as_of_date, rec, source) ==
  [sheet |-> sheet, as_of_date |-> as_of_date,
   beginning_balance |-> rec.beginning, ending_balance |-> rec.ending,
   unrealized_gain_loss |-> rec.unrealized, realized_gain_loss |-> rec.realized,
   management_fees |-> rec.fees, source |-> source]

\* the row an INSERT adds
InsertedRow(rows, values_row, utcnow) ==
  [id |-> NextId(rows), sheet |-> values_row.sheet,
   as_of_date |-> values_row.as_of_date,
   beginning_balance |-> values_row.beginning_balance,
   ending_balance |-> values_row.ending_balance,
   unrealized_gain_loss |-> values_row.unrealized_gain_loss,
   realized_gain_loss |-> values_row.realized_gain_loss,
   management_fees |-> values_row.management_fees,
   source |-> values_row.source, created_at |-> utcnow, updated_at |-> utcnow]

\* faulty upserts, which the properties of the Period Store must reject:
\* one that adds the incoming ending balance to the stored one,
on_conflict_accumulate(rows, values_row, set_, utcnow) ==
  IF \E r \in rows : KeyOf(r) = KeyOf(values_row)
  THEN {IF KeyOf(r) # KeyOf(values_row) THEN r
        ELSE [r EXCEPT
                !.ending_balance =
                   IF @ = None \/ values_row.ending_balance = None
                   THEN values_row.ending_balance
                   ELSE Some(@[1] + values_row.ending_balance[1]),
                !.updated_at = utcnow] : r \in rows}
  ELSE rows \cup {InsertedRow(rows, values_row, utcnow)}

\* one that inserts without looking for the key,
insert_always(rows, values_row, set_, utcnow) ==
  rows \cup {InsertedRow(rows, values_row, utcnow)}

\* and one that deletes the row of the key and inserts the incoming one
delete_then_insert(rows, values_row, set_, utcnow) ==
  {r \in rows : KeyOf(r) # KeyOf(values_row)}
    \cup {InsertedRow(rows, values_row, utcnow)}

\* INSERT ... ON CONFLICT (sheet, as_of_date) DO UPDATE SET set_, executed at
\* utcnow: "updated_at" in set_ is utcnow, every other column of set_ is excluded.<column>
on_conflict_do_update(rows, values_row, set_, utcnow) ==
  IF \E r \in rows : KeyOf(r) = KeyOf(values_row)
  THEN {IF KeyOf(r) # KeyOf(values_row) THEN r
        ELSE [r EXCEPT
                !.beginning_balance =
                   IF "beginning_balance" \in set_ THEN values_row.beginning_balance ELSE @,
                !.ending_balance =
                   IF "ending_balance" \in set_ THEN values_row.ending_balance ELSE @,
                !.unrealized_gain_loss =
                   IF "unrealized_gain_loss" \in set_ THEN values_row.unrealized_gain_loss ELSE @,
                !.realized_gain_loss =
                   IF "realized_gain_loss" \in set_ THEN values_row.realized_gain_loss ELSE @,
                !.management_fees =
                   IF "management_fees" \in set_ THEN values_row.management_fees ELSE @,
                !.source = IF "source" \in set_ THEN values_row.source ELSE @,
                !.updated_at = IF "updated_at" \in set_ THEN utcnow ELSE @] : r \in rows}
  ELSE rows \cup {InsertedRow(rows, values_row, utcnow)}

\* the set_ of the three writers
UploadSet == FinancialColumns \cup {"updated_at", "source"}
SharePointSet == FinancialColumns \cup {"updated_at"}
OverviewSet == FinancialColumns \cup {"updated_at", "source"}

\* the statements of "for dt_key, rec in sorted(totals_by_date.items())"
Statements(sheet, totals, source) ==
  [i \in 1..Len(sorted(DOMAIN totals)) |->
     ValuesRow(sheet, sorted(DOMAIN totals)[i], totals[sorted(DOMAIN totals)[i]], source)]

RECURSIVE ExecuteAll(_, _, _, _)
ExecuteAll(rows, stmts, set_, utcnow) ==
  IF stmts = <<>> THEN rows
  ELSE ExecuteAll(on_conflict_do_update(rows, Head(stmts), set_, utcnow), Tail(stmts),
                  set_, utcnow)

(***************************************************************************)
(* excel_routes.py: sheet resolution, classifier and upload_and_ingest     *)
(***************************************************************************)
\* s.replace(old, new)
RECURSIVE Replace(_, _, _)
Replace(s, old, new) ==
  IF Len(s) < Len(old) THEN s
  ELSE IF SubSeq(s, 1, Len(old)) = old
       THEN new \o Replace(SubSeq(s, Len(old) + 1, Len(s)), old, new)
       ELSE <<Head(s)>> \o Replace(Tail(s), old, new)

\* re.sub(r"\s*\(", " (", s)
RECURSIVE SpaceParen(_)
SpaceParen(s) ==
  IF s = <<>> THEN <<>>
  ELSE IF SkipSpaces(s, 1) <= Len(s) /\ s[SkipSpaces(s, 1)] = "("
       THEN <<" ", "(">> \o SpaceParen(SubSeq(s, SkipSpaces(s, 1) + 1, Len(s)))
       ELSE <<Head(s)>> \o SpaceParen(Tail(s))

\* _sheet_candidates, once base is known
_sheet_candidates_base(base) ==
  IF base = <<>> THEN {}
  ELSE {base,
        strip(Replace(Replace(base, <<"(">>, <<" ", "(">>), <<" ", " ">>, <<" ">>)),
        strip(SpaceParen(base)),
        SelectSeq(base, LAMBDA c : ~IsSpace(c)),
        Replace(base, <<"+">>, <<" ">>)} \ {<<>>}

\* the list is built from a set: its order is not fixed
_sheet_candidates(name) ==
  _sheet_candidates_base(
    strip(name))

excel_normalize_sheet_name(s) ==
  lower(RemoveChars(strip(s),
          {" ", "\t", "\n", "-", "_", ".", "(", ")", "[", "]", "{", "}", "+"}))

SheetNames(wb) == [i \in 1..Len(wb) |-> wb[i].name]

SheetIndex(wb, name) == FirstSheet(SheetNames(wb), LAMBDA n : n = name)

\* ResolvedUploadSheets, once present, exact, inside, default are known
ResolvedUploadSheets_present(sheet, wb, present, exact, inside, default) ==
  IF sheet # <<>> /\ SheetIndex(wb, sheet) # 0 THEN {SheetIndex(wb, sheet)}
  ELSE IF sheet = <<>> THEN default
  ELSE IF present # {} THEN present
  ELSE IF exact # 0 THEN {exact}
  ELSE IF inside # 0 THEN {inside}
  ELSE default

\* ResolvedUploadSheets, once names, tried, want, master are known
ResolvedUploadSheets_names(wb, sheet, names, tried, want, master) ==
  ResolvedUploadSheets_present(sheet, wb,
    {i \in 1..Len(wb) : names[i] \in tried},
    FirstSheet(names, LAMBDA n : excel_normalize_sheet_name(n) = want),
    FirstSheet(names, LAMBDA n : Contains(want, excel_normalize_sheet_name(n))),
    {IF master # 0 THEN master ELSE 1})

\* the sheets upload_and_ingest can resolve to (indices into the workbook)
ResolvedUploadSheets(wb, sheet) ==
  ResolvedUploadSheets_names(wb, sheet,
    SheetNames(wb),
    IF _sheet_candidates(sheet) = {} THEN {sheet} ELSE _sheet_candidates(sheet),
    excel_normalize_sheet_name(sheet),
    SheetIndex(wb, <<"M","a","s","t","e","r">>))

\* str(cell or "").strip().lower()
CellOrBlank(cell) ==
  IF cell.k = "none" \/ (cell.k = "num" /\ cell.n = 0) THEN <<>> ELSE lower(strip(pystr(cell)))

InvestmentScanRows == 200

_has_investments_table(values) ==
  \E r \in FirstRows(values, InvestmentScanRows) :
     \E c \in 1..Len(values[r]) : CellOrBlank(values[r][c]) = <<"i","n","v","e","s","t","m","e","n","t","s">>

_has_balance_labels(values) ==
  \E r \in FirstRows(values, LabelScanRows) :
     \E c \in 1..Len(values[r]) :
        CellOrBlank(values[r][c]) \in
          {<<"b","e","g","i","n","n","i","n","g"," ","b","a","l","a","n","c","e">>, <<"e","n","d","i","n","g"," ","b","a","l","a","n","c","e">>, <<"u","n","r","e","a","l","i","z","e","d"," ","g","a","i","n","/","l","o","s","s">>,
           <<"r","e","a","l","i","z","e","d"," ","g","a","i","n","/","l","o","s","s">>, <<"m","a","n","a","g","e","m","e","n","t"," ","f","e","e","s">>}

_classify_workbook(values) ==
  IF _has_investments_table(values) /\ _has_balance_labels(values) THEN "mixed"
  ELSE IF _has_investments_table(values) THEN "investment"
  ELSE IF _has_balance_labels(values) THEN "balance"
  ELSE "unknown"

\* looks_balance, once normalized, file_type are known
looks_balance_normalized(normalized, file_type) ==
  IF file_type = "mixed" THEN normalized # <<"m","a","s","t","e","r">>
  ELSE Contains(<<"b","c","a","s">>, normalized) \/ Contains(<<"q","4","a","d","j">>, normalized)
       \/ file_type = "balance"

\* whether the admin totals pipeline runs on the resolved sheet
looks_balance(resolved_sheet, values) ==
  looks_balance_normalized(
    excel_normalize_sheet_name(resolved_sheet),
    _classify_workbook(values))

\* _ingest_local_admin_totals, once stmts is known
_ingest_local_admin_totals_stmts(t, rows, utcnow, stmts) ==
  IF ~t.ok THEN [ok |-> FALSE, rows |-> rows, written |-> <<>>]
  ELSE [ok |-> TRUE, rows |-> ExecuteAll(rows, stmts, UploadSet, utcnow),
        written |-> stmts]

\* t is totals_by_date as the parse left it (UploadTotals of the sheet's values).
\* [ok, rows, written]: the table after the commit, or untouched after the
\* rollback of a RuntimeError
_ingest_local_admin_totals(rows, t, target, utcnow) ==
  _ingest_local_admin_totals_stmts(t, rows, utcnow,
    Statements(target, t.totals, "upload"))

\* what upload_and_ingest reads from the resolved sheet before it writes
UploadPlan(sheet) ==
  [name |-> sheet.name, looks_balance |-> looks_balance(sheet.name, sheet.values),
   raw |-> UploadRawTotals(sheet.values), parsed |-> UploadTotals(sheet.values)]

\* the period metrics left by upload_and_ingest for the sheet it resolved to
upload_and_ingest(rows, plan, utcnow) ==
  IF plan.looks_balance
  THEN _ingest_local_admin_totals(rows, plan.parsed, plan.name, utcnow)
  ELSE [ok |-> TRUE, rows |-> rows, written |-> <<>>]

(***************************************************************************)
(* metrics_routes.py: ingest_from_sheet                                    *)
(***************************************************************************)
\* RemoteCandidates, once tried is known
RemoteCandidates_tried(wb, tried) ==
  {i \in 1..Len(wb) : wb[i].name \in tried}

\* the candidates that name a worksheet of the remote workbook
RemoteCandidates(wb, sheet) ==
  RemoteCandidates_tried(wb,
    IF _sheet_candidates(sheet) = {} THEN {sheet} ELSE _sheet_candidates(sheet))

\* what ingest_from_sheet reads from the worksheet before it writes
SharePointPlan(sheet) ==
  [name |-> sheet.name, raw |-> SharePointRawTotals(sheet.values),
   parsed |-> SharePointTotals(sheet.values)]

\* ingest_from_sheet, once stmts is known
ingest_from_sheet_stmts(plan, rows, utcnow, stmts) ==
  IF ~plan.parsed.ok THEN [ok |-> FALSE, rows |-> rows, written |-> <<>>]
  ELSE [ok |-> TRUE, rows |-> ExecuteAll(rows, stmts, SharePointSet, utcnow),
        written |-> stmts]

\* [ok, rows, written] for the worksheet the candidates resolved to
ingest_from_sheet(rows, plan, utcnow) ==
  ingest_from_sheet_stmts(plan, rows, utcnow,
    Statements(plan.name, plan.parsed.totals, "sharepoint-live"))

\* _resolve_remote_sheet_name, once exact, inside, prefix are known
_resolve_remote_sheet_name_exact(exact, inside, prefix) ==
  IF exact # 0 THEN exact ELSE IF inside # 0 THEN inside ELSE prefix

\* _resolve_remote_sheet_name, once names, want are known
_resolve_remote_sheet_name_names(wanted, names, want) ==
  _resolve_remote_sheet_name_exact(
    FirstSheet(names, LAMBDA n : metrics_normalize_sheet_name(n) = want),
    FirstSheet(names, LAMBDA n : Contains(want, metrics_normalize_sheet_name(n))),
    FirstSheet(names, LAMBDA n : StartsWith(lower(n), lower(strip(wanted)))))

\* the three-pass lookup over the worksheet names; 0 stands for None
_resolve_remote_sheet_name(wb, wanted) ==
  _resolve_remote_sheet_name_names(wanted,
    SheetNames(wb),
    metrics_normalize_sheet_name(wanted))

(***************************************************************************)
(* metrics_routes.py: the overview cache and persist-on-read               *)
(***************************************************************************)
OrEmpty(x) == IF x = None THEN <<>> ELSE x[1]

CacheKey(xlsm_path, sheet, basis, period_end_iso, year_qs) ==
  <<xlsm_path, sheet, lower(basis), OrEmpty(period_end_iso), OrEmpty(year_qs)>>

\* a faulty cache, which serves an entry whatever the modification time
_overview_cached_stale(cache, file, fresh, key) ==
  IF key \in DOMAIN cache
  THEN [hit |-> TRUE, ok |-> TRUE, data |-> cache[key].data, cache |-> cache]
  ELSE IF ~fresh.ok
  THEN [hit |-> FALSE, ok |-> FALSE, data |-> <<>>, cache |-> cache]
  ELSE [hit |-> FALSE, ok |-> TRUE, data |-> fresh.data,
        cache |-> [k \in (DOMAIN cache) \cup {key} |->
                     IF k = key THEN [mtime |-> file.mtime, data |-> fresh.data]
                     ELSE cache[k]]]

\* _overview_cached, once key is known
_overview_cached_key(cache, file, fresh, key) ==
  IF key \in DOMAIN cache /\ cache[key].mtime = file.mtime
  THEN [hit |-> TRUE, ok |-> TRUE, data |-> cache[key].data, cache |-> cache]
  ELSE IF ~fresh.ok
  THEN [hit |-> FALSE, ok |-> FALSE, data |-> <<>>, cache |-> cache]
  ELSE [hit |-> FALSE, ok |-> TRUE, data |-> fresh.data,
        cache |-> [k \in (DOMAIN cache) \cup {key} |->
                     IF k = key THEN [mtime |-> file.mtime, data |-> fresh.data]
                     ELSE cache[k]]]

\* [hit, ok, data, cache]: file is the workbook found in the uploads folder,
\* [path, book, mtime], and fresh what _fast_overview computes from it;
\* ok = FALSE is the exception of _fast_overview, which leaves the cache as it
\* was
_overview_cached(cache, file, fresh, sheet, basis, period_end_iso, year_qs) ==
  _overview_cached_key(cache, file, fresh,
    CacheKey(file.path, sheet, basis, period_end_iso, year_qs))

\* PersistDate, once y, m are known
PersistDate_y(y, m) ==
  IF y = None \/ m = None THEN None
  ELSE IF ~(y[1] \in 1..9999 /\ m[1] \in 1..12) THEN None
  ELSE Some(date(y[1], m[1], IF m[1] = 12 THEN 31 ELSE monthrange(y[1], m[1])))

\* the date the period_end text of a result is stored under; None when the
\* text is empty or raises
PersistDate(pe) ==
  IF pe = <<>> THEN None
  ELSE IF Len(pe) = 7 /\ pe[5] = "-"
  THEN PersistDate_y(
         pyint(SubSeq(pe, 1, 4)),
         pyint(SubSeq(pe, 6, 7)))
  ELSE fromisoformat(pe)

\* _upsert_period_metric, once stmt is known
_upsert_period_metric_stmt(as_of, data, rows, utcnow, stmt) ==
  IF as_of = None \/ data.initial_value = None \/ data.current_value = None
  THEN [rows |-> rows, written |-> <<>>]
  ELSE [rows |-> on_conflict_do_update(rows, stmt, OverviewSet, utcnow),
        written |-> <<stmt>>]

\* _upsert_period_metric, once as_of is known
_upsert_period_metric_as_of(sheet_name, data, rows, utcnow, as_of) ==
  _upsert_period_metric_stmt(as_of, data, rows, utcnow,
    [sheet |-> sheet_name, as_of_date |-> as_of[1],
     beginning_balance |-> data.initial_value,
     ending_balance |-> data.current_value,
     unrealized_gain_loss |-> None, realized_gain_loss |-> None,
     management_fees |-> None,
     source |-> IF data.source = None THEN "overview" ELSE data.source[1]])

\* [rows, written]
_upsert_period_metric(rows, sheet_name, data, utcnow) ==
  _upsert_period_metric_as_of(sheet_name, data, rows, utcnow,
    PersistDate(strip(OrEmpty(data.period_end))))

(***************************************************************************)
(* metrics_routes.py: overview_from_db                                     *)
(***************************************************************************)
\* float(x or 0.0)
OrZero(x) == IF x = None THEN 0 ELSE x[1]

RowAtKey(rows, sheet, as_of_date) ==
  CHOOSE r \in rows : r.sheet = sheet /\ r.as_of_date = as_of_date

\* "YYYY-MM" of a date
YearMonth(d) == ZeroPad(NatToStr(Year(d)), 4) \o <<"-">> \o ZeroPad(NatToStr(Month(d)), 2)

\* the JSON body of a 200 answer
DbAnswer(basis, d, ini, cur) ==
  [status |-> 200, basis |-> basis, period_end |-> YearMonth(d),
   initial_value |-> Some(ini), current_value |-> Some(cur),
   moic |-> Money(cur, Some(ini)).moic, roi_pct |-> Money(cur, Some(ini)).roi_pct]

\* overview_from_db, once initial_value is known
overview_from_db_initial_value(pe, mine, none, days, rows, sheet, parsed, as_of, row,
    initial_value) ==
  IF pe = <<>>
  THEN (IF mine = {} THEN none
        ELSE DbAnswer(<<"s","p","a","n">>, SetMax(days),
                      OrZero(RowAtKey(rows, sheet, SetMin(days)).ending_balance),
                      OrZero(RowAtKey(rows, sheet, SetMax(days)).ending_balance)))
  ELSE IF parsed = None THEN [none EXCEPT !.status = 400]
  ELSE IF as_of \notin days THEN none
  ELSE DbAnswer(<<"m","o","n","t","h">>, as_of, initial_value, OrZero(row.ending_balance))

\* overview_from_db, once prev_asof, row are known
overview_from_db_prev_asof(days, rows, sheet, pe, mine, none, parsed, as_of, prev_asof, row) ==
  overview_from_db_initial_value(pe, mine, none, days, rows, sheet, parsed, as_of, row,
    IF row.beginning_balance # None THEN row.beginning_balance[1]
    ELSE IF prev_asof \in days THEN OrZero(RowAtKey(rows, sheet, prev_asof).ending_balance)
    ELSE 0)

\* overview_from_db, once days, as_of are known
overview_from_db_days(rows, sheet, pe, mine, none, parsed, days, as_of) ==
  overview_from_db_prev_asof(days, rows, sheet, pe, mine, none, parsed, as_of,
    as_of - Day(as_of),
    RowAtKey(rows, sheet, as_of))

\* overview_from_db, once mine, none, parsed are known
overview_from_db_mine(rows, sheet, pe, mine, none, parsed) ==
  overview_from_db_days(rows, sheet, pe, mine, none, parsed,
    {r.as_of_date : r \in mine},
    MonthEnd(parsed[1]))

\* pe is the stripped period_end argument; status 200, 400 or 404
overview_from_db(rows, sheet, pe) ==
  overview_from_db_mine(rows, sheet, pe,
    {r \in rows : r.sheet = sheet},
    [status |-> 404, basis |-> <<>>, period_end |-> <<>>, initial_value |-> None,
     current_value |-> None, moic |-> None, roi_pct |-> None],
    IF Len(pe) = 7 /\ pe[5] = "-"
    THEN (IF pyint(SubSeq(pe, 1, 4)) = None \/ pyint(SubSeq(pe, 6, 7)) = None
          THEN None
          ELSE IF ~(pyint(SubSeq(pe, 1, 4))[1] \in 1..9999
                    /\ pyint(SubSeq(pe, 6, 7))[1] \in 1..12) THEN None
          ELSE Some(date(pyint(SubSeq(pe, 1, 4))[1], pyint(SubSeq(pe, 6, 7))[1], 1)))
    ELSE fromisoformat(pe))

(***************************************************************************)
(* The requests of the model                                               *)
(***************************************************************************)
\* the (remote workbook, sheet field) pairs of the ingest-from-sheet requests
SharePointRequests ==
  << [book |-> 1, sheet |-> DefaultSheet],
     [book |-> 2, sheet |-> DefaultSheet],
     [book |-> 3, sheet |-> DefaultSheet],
     [book |-> 1, sheet |-> <<"b","C","A","S","(","Q","4"," ","A","d","j",")">>],
     [book |-> 2, sheet |-> <<"b","c","a","s"," ","q","4">>] >>

\* the (sheet, period_end) arguments of the overview/db requests
DbRequests ==
  << [sheet |-> DefaultSheet, period_end |-> <<>>],
     [sheet |-> DefaultSheet, period_end |-> <<"2","0","2","4","-","0","2">>],
     [sheet |-> DefaultSheet, period_end |-> <<"2","0","2","4","-","0","3","-","1","5">>],
     [sheet |-> <<"b","c","a","s"," ","q","4">>, period_end |-> <<"2","0","2","4","-","1","3">>] >>

UploadsPath == <<"u","p","l","o","a","d","s","/","e","l","p","i","s",".","x","l","s","m">>

\* the sequence <<f[1], ..., f[n]>> of a function f on 1..n
Tabulate(f) == f \o <<>>

\* what the handlers read from the workbooks of the requests
UploadPlans ==
  Tabulate([b \in 1..Len(UploadBooks) |->
              Tabulate([t \in 1..Len(UploadBooks[b]) |-> UploadPlan(UploadBooks[b][t])])])

UploadTargets ==
  Tabulate([u \in 1..Len(UploadRequests) |->
              ResolvedUploadSheets(UploadBooks[UploadRequests[u].book],
                                   strip(UploadRequests[u].sheet))])

SharePointPlans ==
  Tabulate([b \in 1..Len(RemoteBooks) |->
              Tabulate([t \in 1..Len(RemoteBooks[b]) |-> SharePointPlan(RemoteBooks[b][t])])])

SharePointTargets ==
  Tabulate([r \in 1..Len(SharePointRequests) |->
              RemoteCandidates(RemoteBooks[SharePointRequests[r].book],
                               SharePointRequests[r].sheet)])

(***************************************************************************)
(* State                                                                   *)
(***************************************************************************)
VARIABLES
  store,            \* the rows of portfolio_period_metrics (committed)
  _OVERVIEW_CACHE,  \* key -> [mtime, data]
  uploads,          \* the .xlsm of the uploads folder: None or <<[path, book, mtime]>>
  now,              \* datetime.utcnow(), in ticks
  last,             \* what the last request did
  tx,               \* the database sessions of concurrent requests: the statements
                    \* to run and run, the rows written and not yet committed
  committed,        \* key -> the statement of the last committed write
  win,              \* a call of _bounds_for_basis and its result
  probe,            \* a call of _find_header_row_and_date_columns and its result
  agg,              \* a call of _sum_investor_rows_ignore_total and its result
  lab               \* a call of _metric_for_column and its result

vars == <<store, _OVERVIEW_CACHE, uploads, now, last, tx, committed, win, probe, agg, lab>>

MaxClock == 2
MaxMtime == 2

NoRequest ==
  [op |-> "none", arg |-> <<>>, ok |-> FALSE, status |-> 0, sheet |-> <<>>, before |-> {},
   written |-> <<>>, raw |-> <<>>, repeat |-> FALSE, hit |-> FALSE, data |-> None,
   cache_before |-> <<>>, at |-> 0]

Sessions == {1, 2}

NoSession == [state |-> "idle", writer |-> "none", stmts |-> <<>>, done |-> <<>>,
              set_ |-> {}, rows |-> {}, at |-> 0]

\* excel and metrics are the header rows the two copies of
\* _find_header_row_and_date_columns return, 0 for None
NoProbe == [called |-> FALSE, values |-> <<>>, anchor_row |-> 0, excel |-> 0, metrics |-> 0]

\* total is the sum returned, None for None
NoAgg == [called |-> FALSE, values |-> <<>>, start_label_row_1b |-> 0, date_col_1b |-> 0,
          stop_row_1b |-> 0, total |-> None]

\* excel and metrics are the metric keys the two copies of _metric_for_column
\* return, None for None
NoLab == [called |-> FALSE, values |-> <<>>, header_row_1b |-> 0, col_1b |-> 0,
          excel |-> None, metrics |-> None]

NoMetrics == [moic |-> None, roi_pct |-> None, irr_pct |-> None]

\* ok, initial_value and current_value are the values picked for the window;
\* local and live the metrics of _fast_overview and of _compute_from_values
NoWindow == [called |-> FALSE, dates |-> {}, basis |-> <<>>, period_end |-> None,
             year |-> None, start |-> 0, end |-> 0, ok |-> FALSE,
             initial_value |-> 0, current_value |-> 0,
             local |-> NoMetrics, live |-> NoMetrics]

Init ==
  /\ store = {}
  /\ _OVERVIEW_CACHE = <<>>
  /\ uploads = None
  /\ now = 0
  /\ last = NoRequest
  /\ tx = [s \in Sessions |-> NoSession]
  /\ committed = <<>>
  /\ win = NoWindow
  /\ probe = NoProbe
  /\ agg = NoAgg
  /\ lab = NoLab

\* a request repeats the one before it when it is the same request on the
\* same inputs and that one succeeded
Repeats(arg) == last.ok /\ last.arg = arg

(***************************************************************************)
(* POST /excel/upload_and_ingest                                           *)
(***************************************************************************)
UploadIngest(u, t) ==
  /\ now < MaxClock
  /\ t \in UploadTargets[u]
  /\ \E plan \in {UploadPlans[UploadRequests[u].book][t]} :
     \E res \in {upload_and_ingest(store, plan, now + 1)} :
        /\ store' = res.rows
        /\ now' = now + 1
        /\ last' = [NoRequest EXCEPT
                      !.op = "upload", !.arg = <<"upload", u, t>>, !.ok = res.ok,
                      !.status = IF res.ok THEN 200 ELSE 500, !.sheet = plan.name,
                      !.before = store, !.written = res.written,
                      !.raw = IF res.written = <<>> THEN <<>> ELSE plan.raw.totals,
                      !.repeat = Repeats(<<"upload", u, t>>), !.at = now + 1]
  /\ UNCHANGED <<_OVERVIEW_CACHE, uploads, tx, committed, win, probe, agg, lab>>

(***************************************************************************)
(* POST /metrics/ingest-from-sheet                                         *)
(***************************************************************************)
\* t = 0: no candidate names a worksheet (400)
SharePointIngest(r, t) ==
  /\ now < MaxClock
  /\ now' = now + 1
  /\ \E found \in {SharePointTargets[r]} :
       IF found = {}
       THEN /\ t = 0
            /\ store' = store
            /\ last' = [NoRequest EXCEPT
                          !.op = "sharepoint", !.arg = <<"sharepoint", r, t>>,
                          !.status = 400, !.sheet = SharePointRequests[r].sheet,
                          !.before = store, !.at = now + 1]
       ELSE /\ t \in found
            /\ \E plan \in {SharePointPlans[SharePointRequests[r].book][t]} :
               \E res \in {ingest_from_sheet(store, plan, now + 1)} :
                  /\ store' = res.rows
                  /\ last' = [NoRequest EXCEPT
                                !.op = "sharepoint", !.arg = <<"sharepoint", r, t>>,
                                !.ok = res.ok, !.status = IF res.ok THEN 200 ELSE 400,
                                !.sheet = plan.name, !.before = store,
                                !.written = res.written,
                                !.raw = IF res.written = <<>> THEN <<>> ELSE plan.raw.totals,
                                !.repeat = Repeats(<<"sharepoint", r, t>>), !.at = now + 1]
  /\ UNCHANGED <<_OVERVIEW_CACHE, uploads, tx, committed, win, probe, agg, lab>>

(***************************************************************************)
(* GET /metrics/overview                                                   *)
(***************************************************************************)
ValidBases == {<<"i","n","c","e","p","t","i","o","n">>, <<"y","t","d">>, <<"q","u","a","r","t","e","r">>, <<"m","o","n","t","h">>, <<"d","a","y">>, <<"l","a","t","e","s","t">>}

\* (request.args.get("basis") or "inception").lower(), unknown -> inception
overview_basis(b) ==
  IF b = <<>> \/ lower(b) \notin ValidBases THEN <<"i","n","c","e","p","t","i","o","n">> ELSE lower(b)

\* the worksheets the generic usedRange scan can land on
LiveSheets(wb, sheet) ==
  IF RemoteCandidates(wb, sheet) # {} THEN RemoteCandidates(wb, sheet)
  ELSE {_resolve_remote_sheet_name(wb, sheet)}

\* what _fast_overview computes from the workbooks of the uploads folder
LocalOverviews ==
  Tabulate([b \in 1..Len(LocalBooks) |->
    Tabulate([q \in 1..Len(OverviewRequests) |->
      _fast_overview(LocalBooks[b], OverviewRequests[q].sheet,
                     overview_basis(OverviewRequests[q].basis),
                     OverviewRequests[q].period_end, OverviewRequests[q].year)])])

LiveTargets ==
  Tabulate([b \in 1..Len(RemoteBooks) |->
    Tabulate([q \in 1..Len(OverviewRequests) |->
      LiveSheets(RemoteBooks[b], OverviewRequests[q].sheet)])])

LiveOverview(sheet_name, computed) ==
  [ok |-> computed.ok, sheet |-> sheet_name, data |-> computed.data]

\* what the SharePoint LIVE branch computes from worksheet t of a remote
\* workbook: [ok, sheet, data]
LiveOverviews ==
  Tabulate([b \in 1..Len(RemoteBooks) |->
    Tabulate([q \in 1..Len(OverviewRequests) |->
      Tabulate([t \in 1..Len(RemoteBooks[b]) |->
        LiveOverview(RemoteBooks[b][t].name,
          _compute_from_values(RemoteBooks[b][t].values, RemoteBooks[b][t].name,
                               overview_basis(OverviewRequests[q].basis),
                               OverviewRequests[q].period_end, OverviewRequests[q].year))])])])

\* the local branch when the uploads folder holds no workbook
NoLocal == [hit |-> FALSE, ok |-> FALSE, data |-> <<>>, cache |-> <<>>]

\* the LIVE branch without a bearer, a connection or a worksheet
NoLive == [ok |-> FALSE, sheet |-> <<>>, data |-> <<>>]

\* remote = 0: no bearer or no connection; otherwise the remote workbook
overview(q, remote, t) ==
  /\ now < MaxClock
  /\ \E req \in {OverviewRequests[q]} :
     \E local \in {IF uploads = None THEN NoLocal
                   ELSE _overview_cached(_OVERVIEW_CACHE, uploads[1],
                                         LocalOverviews[uploads[1].book][q], req.sheet,
                                         overview_basis(req.basis), req.period_end,
                                         req.year)} :
     \E live \in {IF remote = 0 \/ t = 0 THEN NoLive ELSE LiveOverviews[remote][q][t]} :
     \E persisted \in {IF local.ok
                       THEN _upsert_period_metric(store, req.sheet, local.data, now + 1)
                       ELSE IF live.ok
                       THEN _upsert_period_metric(store, live.sheet, live.data, now + 1)
                       ELSE [rows |-> store, written |-> <<>>]} :
     \E arg \in {<<"overview", q, remote, t, uploads>>} :
        /\ IF local.ok THEN remote = 0 /\ t = 0
           ELSE IF remote = 0 THEN t = 0
           ELSE t \in LiveTargets[remote][q]
        /\ store' = persisted.rows
        /\ _OVERVIEW_CACHE' = IF local.ok THEN local.cache ELSE _OVERVIEW_CACHE
        /\ now' = now + 1
        /\ last' = [NoRequest EXCEPT
                      !.op = "overview", !.arg = arg,
                      !.ok = local.ok \/ live.ok,
                      !.status = IF local.ok THEN 200
                                 ELSE IF remote = 0 THEN 401
                                 ELSE IF live.ok THEN 200 ELSE 400,
                      !.sheet = IF local.ok \/ remote = 0 \/ t = 0 THEN req.sheet
                                ELSE live.sheet,
                      !.before = store, !.written = persisted.written,
                      !.repeat = Repeats(arg),
                      !.hit = local.ok /\ local.hit,
                      !.data = IF local.ok THEN Some(local.data)
                               ELSE IF live.ok THEN Some(live.data) ELSE None,
                      !.cache_before = _OVERVIEW_CACHE, !.at = now + 1]
  /\ UNCHANGED <<uploads, tx, committed, win, probe, agg, lab>>

(***************************************************************************)
(* GET /metrics/overview/db                                                *)
(***************************************************************************)
OverviewFromDb(q) ==
  /\ \E answer \in {overview_from_db(store, DbRequests[q].sheet,
                                      strip(DbRequests[q].period_end))} :
       last' = [NoRequest EXCEPT
                  !.op = "overview_db", !.arg = <<"overview_db", q>>,
                  !.ok = answer.status = 200, !.status = answer.status,
                  !.sheet = DbRequests[q].sheet, !.before = store, !.data = Some(answer),
                  !.at = now]
  /\ UNCHANGED <<store, _OVERVIEW_CACHE, uploads, now, tx, committed, win, probe, agg, lab>>

(***************************************************************************)
(* The uploads folder: a workbook is put there or saved again              *)
(***************************************************************************)
ModifyWorkbook(b) ==
  LET mtime == IF uploads = None THEN 0 ELSE uploads[1].mtime
  IN /\ mtime < MaxMtime
     /\ uploads' = Some([path |-> UploadsPath, book |-> b, mtime |-> mtime + 1])
     /\ last' = [NoRequest EXCEPT !.op = "modify", !.arg = <<"modify", b>>,
                                  !.before = store, !.at = now]
     /\ UNCHANGED <<store, _OVERVIEW_CACHE, now, tx, committed, win, probe, agg, lab>>

Next ==
  \/ \E u \in 1..Len(UploadRequests) :
        \E t \in 1..Len(UploadBooks[UploadRequests[u].book]) : UploadIngest(u, t)
  \/ \E r \in 1..Len(SharePointRequests) :
        \E t \in 0..Len(RemoteBooks[SharePointRequests[r].book]) : SharePointIngest(r, t)
  \/ \E q \in 1..Len(OverviewRequests) :
        \E remote \in 0..Len(RemoteBooks) : \E t \in 0..1 : overview(q, remote, t)
  \/ \E q \in 1..Len(DbRequests) : OverviewFromDb(q)
  \/ \E b \in 1..Len(LocalBooks) : ModifyWorkbook(b)

Spec == Init /\ [][Next]_vars

(***************************************************************************)
(* Concurrent requests: each runs its statements in a database session of  *)
(* its own and commits at the end.  A statement on a key that another open *)
(* session has written waits for that session to end (the unique index on  *)
(* (sheet, as_of_date)), then sees the row that session committed.         *)
(***************************************************************************)
\* the transactions of the three writers on the keys of one sheet
WriterJobs ==
  { [writer |-> "upload",
      stmts |-> Statements(DefaultSheet, UploadPlans[2][2].parsed.totals, "upload"),
      set_ |-> UploadSet],
     [writer |-> "sharepoint",
      stmts |-> Statements(DefaultSheet, SharePointPlans[1][1].parsed.totals,
                           "sharepoint-live"),
      set_ |-> SharePointSet],
     [writer |-> "overview",
      stmts |-> _upsert_period_metric({}, DefaultSheet, LocalOverviews[1][2].data, 0).written,
      set_ |-> OverviewSet] }

KeysOf(rows) == {KeyOf(r) : r \in rows}

\* the keys written and not yet committed by the sessions other than s
LockedByOthers(s) == UNION {KeysOf(tx[o].rows) : o \in Sessions \ {s}}

Begin(s, job) ==
  /\ tx[s].state = "idle"
  /\ now < MaxClock
  /\ now' = now + 1
  /\ tx' = [tx EXCEPT ![s] = [state |-> "open", writer |-> job.writer,
                              stmts |-> job.stmts, done |-> <<>>, set_ |-> job.set_,
                              rows |-> {}, at |-> now + 1]]
  /\ UNCHANGED <<store, _OVERVIEW_CACHE, uploads, last, committed, win, probe, agg, lab>>

\* db.session.execute(stmt)
Execute(s) ==
  LET stmt == Head(tx[s].stmts)
      mine == tx[s].rows
      visible == {r \in store : KeyOf(r) \notin KeysOf(mine)} \cup mine
      others == UNION {tx[o].rows : o \in Sessions \ {s}}
      after == on_conflict_do_update(visible \cup others, stmt, tx[s].set_, tx[s].at)
  IN /\ tx[s].state = "open"
     /\ tx[s].stmts # <<>>
     /\ KeyOf(stmt) \notin LockedByOthers(s)
     /\ tx' = [tx EXCEPT ![s].stmts = Tail(@), ![s].done = Append(@, stmt),
                         ![s].rows = {r \in after : KeyOf(r) \in KeysOf(mine) \cup {KeyOf(stmt)}}]
     /\ UNCHANGED <<store, _OVERVIEW_CACHE, uploads, now, last, committed, win, probe, agg, lab>>

\* db.session.commit()
Commit(s) ==
  LET mine == tx[s].rows
      done == tx[s].done
  IN /\ tx[s].state = "open"
     /\ tx[s].stmts = <<>>
     /\ store' = {r \in store : KeyOf(r) \notin KeysOf(mine)} \cup mine
     /\ committed' = [k \in (DOMAIN committed) \cup KeysOf(mine) |->
                        IF k \in KeysOf(mine)
                        THEN done[CHOOSE i \in 1..Len(done) : KeyOf(done[i]) = k]
                        ELSE committed[k]]
     /\ tx' = [tx EXCEPT ![s] = NoSession]
     /\ UNCHANGED <<_OVERVIEW_CACHE, uploads, now, last, win, probe, agg, lab>>

\* a faulty end of a failed request, which all-or-nothing must reject: the
\* rows written so far are kept, as under autocommit
AbortKeepsWrites(s) ==
  /\ tx[s].state = "open"
  /\ store' = {r \in store : KeyOf(r) \notin KeysOf(tx[s].rows)} \cup tx[s].rows
  /\ tx' = [tx EXCEPT ![s] = NoSession]
  /\ last' = [NoRequest EXCEPT !.op = "abort", !.arg = <<"abort", s, tx[s].writer>>,
                               !.before = store, !.written = tx[s].done, !.at = now]
  /\ UNCHANGED <<_OVERVIEW_CACHE, uploads, now, committed, win, probe, agg, lab>>

\* the request fails before its commit: a structural error raised before the
\* first statement or an exception after some of them, then
\* db.session.rollback(), or the session is discarded with the request
Abort(s) ==
  /\ tx[s].state = "open"
  /\ tx' = [tx EXCEPT ![s] = NoSession]
  /\ last' = [NoRequest EXCEPT !.op = "abort", !.arg = <<"abort", s, tx[s].writer>>,
                               !.before = store, !.written = tx[s].done, !.at = now]
  /\ UNCHANGED <<store, _OVERVIEW_CACHE, uploads, now, committed, win, probe, agg, lab>>

ConcNext ==
  \/ \E s \in Sessions : \E job \in WriterJobs : Begin(s, job)
  \/ \E s \in Sessions : Execute(s)
  \/ \E s \in Sessions : Commit(s)
  \/ \E s \in Sessions : Abort(s)

ConcSpec == Init /\ [][ConcNext]_vars

(***************************************************************************)
(* The window resolver on its own: the arguments are drawn, then           *)
(* _bounds_for_basis is applied to them                                    *)
(***************************************************************************)
MaxDates == 3

DatePool == {date(2023, 12, 31), date(2024, 1, 31), date(2024, 2, 15), date(2024, 3, 31)}

\* the month ends of January to June 2024
HalfYear ==
  {date(2024, 1, 31), date(2024, 2, 29), date(2024, 3, 31), date(2024, 4, 30),
   date(2024, 5, 31), date(2024, 6, 30)}

DateSets == {D \in SUBSET DatePool : D # {} /\ Cardinality(D) <= MaxDates} \cup {HalfYear}

\* the ending total of each date: the period map has no beginning values
EndingTotals ==
  [d \in DatePool \cup HalfYear |->
     IF d = date(2023, 12, 31) THEN -50
     ELSE IF d = date(2024, 1, 31) THEN 0
     ELSE IF d = date(2024, 2, 15) THEN 200
     ELSE IF d = date(2024, 2, 29) THEN 220
     ELSE IF d = date(2024, 3, 31) THEN 250
     ELSE IF d = date(2024, 4, 30) THEN 260
     ELSE IF d = date(2024, 5, 31) THEN 270
     ELSE 300]

\* faulty metrics, which are null for a negative initial value as well
FastMetricsPositiveOnly(initial_value, current_value, start_dt, end_dt) ==
  IF initial_value > 0
  THEN [moic |-> Some(Ratio(current_value, initial_value)),
        roi_pct |-> Some(Ratio((current_value - initial_value) * 100, initial_value)),
        irr_pct |-> _irr_from_span(initial_value, current_value, start_dt, end_dt)]
  ELSE NoMetrics

\* moic, roi_pct and irr_pct as _fast_overview computes them
FastMetrics(initial_value, current_value, start_dt, end_dt) ==
  IF initial_value # 0
  THEN [moic |-> Some(Ratio(current_value, initial_value)),
        roi_pct |-> Some(Ratio((current_value - initial_value) * 100, initial_value)),
        irr_pct |-> _irr_from_span(initial_value, current_value, start_dt, end_dt)]
  ELSE NoMetrics

\* moic, roi_pct and irr_pct as _compute_from_values computes them: moic is
\* rounded to 4 digits and roi_pct to 2
LiveMetrics(initial_value, current_value, start_dt, end_dt) ==
  IF initial_value # 0
  THEN [moic |-> Some(RoundRatio((IF initial_value < 0 THEN -1 ELSE 1) * current_value,
                                 Abs(initial_value), 4)),
        roi_pct |-> Some(RoundRatio((IF initial_value < 0 THEN -1 ELSE 1)
                                      * (current_value - initial_value) * 100,
                                    Abs(initial_value), 2)),
        irr_pct |-> _irr_from_span(initial_value, current_value, start_dt, end_dt)]
  ELSE NoMetrics

\* eff_basis of the basis the route passes on
EffBasis(b) == IF overview_basis(b) = <<"l","a","t","e","s","t">> THEN <<"m","o","n","t","h">> ELSE overview_basis(b)

WindowBases ==
  {<<>>, <<"i","n","c","e","p","t","i","o","n">>, <<"y","t","d">>, <<"q","u","a","r","t","e","r">>, <<"m","o","n","t","h">>, <<"d","a","y">>, <<"l","a","t","e","s","t">>, <<"Q","U","A","R","T","E","R">>,
   <<"w","e","e","k","l","y">>}

WindowPeriodEnds ==
  {None, Some(<<>>), Some(<<"2","0","2","4","-","0","2">>), Some(<<"2","0","2","4","-","0","3">>), Some(<<"2","0","2","4">>),
   Some(<<"2","0","2","4","-","0","2","-","2","0">>),
   Some(<<"2","0","2","4","-","0","6","-","1","5">>), Some(<<"2","0","2","3","-","1","1","-","3","0">>), Some(<<"2","0","2","4","-","1","3">>), Some(<<"s","o","o","n">>)}

WindowYears == {None, Some(<<"2","0","2","4">>), Some(<<"2","0","2","3">>), Some(<<"1","9","9","9">>), Some(<<"a","b","c">>)}

WindowInit ==
  /\ store = {}
  /\ _OVERVIEW_CACHE = <<>>
  /\ uploads = None
  /\ now = 0
  /\ last = NoRequest
  /\ tx = [s \in Sessions |-> NoSession]
  /\ committed = <<>>
  /\ probe = NoProbe
  /\ agg = NoAgg
  /\ lab = NoLab
  /\ win \in {[NoWindow EXCEPT !.dates = D, !.basis = b, !.period_end = pe, !.year = y] :
                D \in DateSets, b \in WindowBases, pe \in WindowPeriodEnds, y \in WindowYears}

ResolveWindow ==
  /\ ~win.called
  /\ \E res \in {_bounds_for_basis(win.dates, win.basis, win.period_end, win.year)} :
     \E v \in {BasisValues(win.dates, [d \in win.dates |-> EndingTotals[d]], <<>>, FALSE,
                           EffBasis(win.basis), res.start, res.end)} :
       win' = [win EXCEPT
                 !.called = TRUE, !.start = res.start, !.end = res.end, !.ok = v.ok,
                 !.initial_value = v.initial_value, !.current_value = v.current_value,
                 !.local = IF v.ok THEN FastMetrics(v.initial_value, v.current_value,
                                                    res.start, res.end)
                           ELSE NoMetrics,
                 !.live = IF v.ok THEN LiveMetrics(v.initial_value, v.current_value,
                                                   res.start, res.end)
                          ELSE NoMetrics]
  /\ UNCHANGED <<store, _OVERVIEW_CACHE, uploads, now, last, tx, committed, probe, agg, lab>>

WindowNext == ResolveWindow

WindowSpec == WindowInit /\ [][WindowNext]_vars


(***************************************************************************)
(* The header-row search on its own: a grid and an anchor are drawn, then  *)
(* both copies of _find_header_row_and_date_columns are applied to them    *)
(***************************************************************************)
MaxGridRows == 3

\* the rows a grid is made of: no cell, two and three dates, two numeric
\* identifiers that decode to 1968 and 1982, one date beside amounts, one
\* date beside an identifier, and two dates decades ahead
ProbeRows ==
  << <<NoneCell, NoneCell, NoneCell, NoneCell>>,
     <<Str(<<"N","a","m","e">>), Num(45322), Num(45351), NoneCell>>,
     <<Str(<<"N","a","m","e">>), Str(<<"0","1","/","3","1","/","2","0","2","4">>), Str(<<"0","2","/","2","9","/","2","0","2","4">>), DateCell(date(2024, 3, 31))>>,
     <<Num(25000), Num(30000), Str(<<"F","u","n","d"," ","A">>), NoneCell>>,
     <<Str(<<"A","s"," ","o","f">>), Num(45322), Num(1000), Num(1100)>>,
     <<Num(20500), DateCell(date(2024, 1, 31)), Str(<<"F","u","n","d"," ","B">>), NoneCell>>,
     <<Str(<<"P","l","a","n">>), Num(60000), Str(<<"1","2","/","3","1","/","2","0","6","0">>), NoneCell>> >>

ProbeGrids ==
  UNION {[1..n -> {ProbeRows[i] : i \in 1..Len(ProbeRows)}] : n \in 1..MaxGridRows}

\* 0 is "no anchor"
ProbeAnchors == 0..(MaxGridRows + 1)

HeaderInit ==
  /\ store = {}
  /\ _OVERVIEW_CACHE = <<>>
  /\ uploads = None
  /\ now = 0
  /\ last = NoRequest
  /\ tx = [s \in Sessions |-> NoSession]
  /\ committed = <<>>
  /\ win = NoWindow
  /\ probe \in {[NoProbe EXCEPT !.values = g, !.anchor_row = a] :
                  g \in ProbeGrids, a \in ProbeAnchors}
  /\ agg = NoAgg
  /\ lab = NoLab

FindHeader ==
  /\ ~probe.called
  /\ probe' = [probe EXCEPT
                 !.called = TRUE,
                 !.excel = excel_find_header_row_and_date_columns(
                             probe.values, AnchorScanRows, probe.anchor_row).hdr,
                 !.metrics = metrics_find_header_row_and_date_columns(
                               probe.values, IngestScanRows, probe.anchor_row).hdr]
  /\ UNCHANGED <<store, _OVERVIEW_CACHE, uploads, now, last, tx, committed, win, agg, lab>>

HeaderNext == FindHeader

HeaderSpec == HeaderInit /\ [][HeaderNext]_vars

(***************************************************************************)
(* The aggregation on its own: a grid, a label row, a date column and a    *)
(* stop row are drawn, then _sum_investor_rows_ignore_total is applied     *)
(***************************************************************************)
MaxAggRows == 3

\* the rows a grid is made of, as <<identifier, name, amount, amount>>: two
\* partners whose amounts cancel, a partner without amounts, a partner known
\* by its identifier only, the two subtotal rows, a row whose identifier
\* cell holds the subtotal text, and a row without name and identifier
AggRows ==
  << <<Num(1), Str(<<"F","u","n","d"," ","A">>), Num(100), Str(<<"$","1",",","2","0","0">>)>>,
     <<Num(2), Str(<<"F","u","n","d"," ","B">>), Str(<<"(","1","0","0",")">>), Num(0)>>,
     <<Num(3), Str(<<"F","u","n","d"," ","C">>), Str(<<"EMDASH">>), NoneCell>>,
     <<Str(<<"L","P","-","4">>), NoneCell, Num(25), Num(30)>>,
     <<NoneCell, Str(<<" ","G","r","a","n","d"," "," ","T","o","t","a","l"," ">>), Num(125), Num(1230)>>,
     <<NoneCell, Str(<<"E","n","t","i","t","y"," ","L","e","v","e","l">>), Num(7), Num(8)>>,
     <<Str(<<"T","o","t","a","l">>), NoneCell, Num(40), Num(50)>>,
     <<NoneCell, Str(<<" ">>), Num(9), Num(10)>> >>

AggGrids ==
  UNION {[1..n -> {AggRows[i] : i \in 1..Len(AggRows)}] : n \in 1..MaxAggRows}

AggColumns == {3, 4}

\* the label row is row 1 or 2 of the grid; the stop row is None (0) or a row
\* of the grid

AggInit ==
  /\ store = {}
  /\ _OVERVIEW_CACHE = <<>>
  /\ uploads = None
  /\ now = 0
  /\ last = NoRequest
  /\ tx = [s \in Sessions |-> NoSession]
  /\ committed = <<>>
  /\ win = NoWindow
  /\ probe = NoProbe
  /\ agg \in {[NoAgg EXCEPT !.values = g, !.start_label_row_1b = l, !.date_col_1b = c,
                            !.stop_row_1b = s] :
                g \in AggGrids, l \in 1..2, c \in AggColumns,
                s \in {0} \cup (2..MaxAggRows)}
  /\ lab = NoLab

Aggregate ==
  /\ ~agg.called
  /\ agg' = [agg EXCEPT
               !.called = TRUE,
               !.total = _sum_investor_rows_ignore_total(
                           agg.values, agg.start_label_row_1b, agg.date_col_1b,
                           agg.stop_row_1b)]
  /\ UNCHANGED <<store, _OVERVIEW_CACHE, uploads, now, last, tx, committed, win, probe, lab>>

AggNext == Aggregate

AggSpec == AggInit /\ [][AggNext]_vars

(***************************************************************************)
(* The metric of a column on its own: a column with at most two labels and *)
(* a header row are drawn, then both copies of _metric_for_column are      *)
(* applied to them                                                         *)
(***************************************************************************)
MaxLabelRows == 15

LabelTexts == {<<"E","n","d","i","n","g"," ","B","a","l","a","n","c","e">>, <<" ","m","a","n","a","g","e","m","e","n","t"," "," ","F","E","E","S"," ">>}

\* a one-column grid of MaxLabelRows rows: amounts, and the labels l1 at row
\* p1 and l2 at row p2 (row 0: no label)
LabelColumn(p1, l1, p2, l2) ==
  [r \in 1..MaxLabelRows |->
     <<IF r = p2 THEN Str(l2) ELSE IF r = p1 THEN Str(l1) ELSE Num(100 + r)>>]

LabelColumns ==
  {LabelColumn(p1, l1, p2, l2) :
     p1 \in 0..MaxLabelRows, l1 \in LabelTexts, p2 \in 0..MaxLabelRows, l2 \in LabelTexts}

\* header rows at the top, in the middle and at the bottom of the grid
LabelHeaders == {1, 2, MaxLabelRows - 1}

LabelInit ==
  /\ store = {}
  /\ _OVERVIEW_CACHE = <<>>
  /\ uploads = None
  /\ now = 0
  /\ last = NoRequest
  /\ tx = [s \in Sessions |-> NoSession]
  /\ committed = <<>>
  /\ win = NoWindow
  /\ probe = NoProbe
  /\ agg = NoAgg
  /\ lab \in {[NoLab EXCEPT !.values = g, !.header_row_1b = h, !.col_1b = 1] :
                g \in LabelColumns, h \in LabelHeaders}

MetricForColumn ==
  /\ ~lab.called
  /\ lab' = [lab EXCEPT
               !.called = TRUE,
               !.excel = excel_metric_for_column(lab.values, lab.header_row_1b, lab.col_1b),
               !.metrics = metrics_metric_for_column(lab.values, lab.header_row_1b,
                                                     lab.col_1b, LookbackRows)]
  /\ UNCHANGED <<store, _OVERVIEW_CACHE, uploads, now, last, tx, committed, win, probe, agg>>

LabelNext == MetricForColumn

LabelSpec == LabelInit /\ [][LabelNext]_vars

(***************************************************************************)
(* Properties of the Period Store                                          *)
(***************************************************************************)
\* a record seen through its key and its five financial fields
Financial(r) ==
  <<r.sheet, r.as_of_date, r.beginning_balance, r.ending_balance,
    r.unrealized_gain_loss, r.realized_gain_loss, r.management_fees>>

FinancialView(rows) == {Financial(r) : r \in rows}

SameFinancials(r, v) ==
  /\ r.beginning_balance = v.beginning_balance
  /\ r.ending_balance = v.ending_balance
  /\ r.unrealized_gain_loss = v.unrealized_gain_loss
  /\ r.realized_gain_loss = v.realized_gain_loss
  /\ r.management_fees = v.management_fees

\* the SET clause of the path the last request took
SetOfLast ==
  IF last.op = "upload" THEN UploadSet
  ELSE IF last.op = "sharepoint" THEN SharePointSet ELSE OverviewSet

\* C1: an ingestion or a persist-on-read that repeats the request before it on
\* the same inputs leaves every record's key and five financial fields as they
\* were, and executing its statements once more changes none of them either
C1_IdempotentIngestion ==
  /\ (last.repeat /\ last.op \in {"upload", "sharepoint", "overview"})
       => FinancialView(store) = FinancialView(last.before)
  /\ last.op \in {"upload", "sharepoint", "overview"}
       => FinancialView(ExecuteAll(store, last.written, SetOfLast, now + 1))
            = FinancialView(store)

C1_Witness ==
  /\ last.repeat /\ last.op = "upload" /\ Len(last.written) >= 2
  /\ \E r \in store : r.ending_balance # None /\ r.created_at < r.updated_at

\* C2: no two records of the store share (sheet, as_of_date)
C2_UniqueKey ==
  \A r1, r2 \in store : KeyOf(r1) = KeyOf(r2) => r1 = r2

C2_Witness ==
  /\ Cardinality(store) >= 2
  /\ \E r \in store : r.created_at < r.updated_at

\* C3 as the specification states it: every stored date is the last day of
\* its month
C3_MonthEndDates == \A r \in store : IsMonthEnd(r.as_of_date)

\* C4 as the specification states it: a read of the overview changes no
\* record that an ingestion left in the store
C4_ReadKeepsIngested ==
  last.op = "overview" =>
    \A b \in last.before :
      b.source \in {"upload", "sharepoint-live"} =>
        \E r \in store : Financial(r) = Financial(b)

\* the latest month before d in the totals as read
PrevMonths(raw, d) == {p \in DOMAIN raw : p < d}

\* C5: a month read without a beginning balance is stored with the ending
\* balance read for the latest earlier month, when that month has one; a
\* beginning balance that was read is stored as read
C5_CarryForward ==
  /\ (last.op \in {"upload", "sharepoint"} /\ last.written # <<>>) =>
       \A i \in 1..Len(last.written) :
         \E d \in {last.written[i].as_of_date} :
           /\ d \in DOMAIN last.raw
           /\ last.raw[d].beginning # None
                => last.written[i].beginning_balance = last.raw[d].beginning
           /\ (last.raw[d].beginning = None /\ PrevMonths(last.raw, d) # {}
                 /\ last.raw[SetMax(PrevMonths(last.raw, d))].ending # None)
                => last.written[i].beginning_balance
                     = last.raw[SetMax(PrevMonths(last.raw, d))].ending
  /\ CarryForward(PutTotals(PutTotals(<<>>, 45322, [EmptyRec EXCEPT !.ending = Some(100)]),
                            45351, [EmptyRec EXCEPT !.ending = Some(120)]))[45351].beginning
       = Some(100)

C5_Witness ==
  /\ last.op = "upload" /\ last.written # <<>>
  /\ \E i \in 1..Len(last.written) :
       \E d \in {last.written[i].as_of_date} :
         /\ last.raw[d].beginning = None
         /\ PrevMonths(last.raw, d) # {}
         /\ last.raw[SetMax(PrevMonths(last.raw, d))].ending # None
         /\ \E r \in store : KeyOf(r) = KeyOf(last.written[i])
                              /\ r.beginning_balance = last.raw[SetMax(PrevMonths(last.raw, d))].ending

\* C6: a write whose key is already stored overwrites the five financial
\* fields with the incoming ones, sets updated_at to the time of the write and
\* keeps the record's id and created_at; it adds no record
C6_UpsertOverwrites ==
  (last.op \in {"upload", "sharepoint", "overview"} /\ last.written # <<>>) =>
    \A i \in 1..Len(last.written) :
      \A b \in last.before :
        KeyOf(b) = KeyOf(last.written[i]) =>
          \E r \in store :
            /\ KeyOf(r) = KeyOf(b)
            /\ (\A j \in (i + 1)..Len(last.written) :
                  KeyOf(last.written[j]) # KeyOf(b))
                 => SameFinancials(r, last.written[i])
            /\ r.updated_at = last.at
            /\ r.created_at = b.created_at
            /\ r.id = b.id
            /\ \A r2 \in store : KeyOf(r2) = KeyOf(b) => r2 = r

C6_Witness ==
  /\ last.op = "upload" /\ last.written # <<>>
  /\ \E b \in last.before : \E r \in store :
       /\ KeyOf(r) = KeyOf(b) /\ KeyOf(b) = KeyOf(last.written[1])
       /\ ~SameFinancials(r, b)
       /\ r.updated_at > b.updated_at

\* C7 as the specification states it: whatever the interleaving of two
\* sessions, every stored record is, in its entirety, the record of the write
\* committed last on its key, and no key is stored twice
C7_LastCommitWins ==
  /\ \A r \in store :
       /\ KeyOf(r) \in DOMAIN committed
       /\ SameFinancials(r, committed[KeyOf(r)])
       /\ r.source = committed[KeyOf(r)].source
  /\ \A r1, r2 \in store : KeyOf(r1) = KeyOf(r2) => r1 = r2

(***************************************************************************)
(* Properties of the derived-result cache                                  *)
(***************************************************************************)
\* the cache key of the last overview request
LastCacheKey ==
  CacheKey(UploadsPath, OverviewRequests[last.arg[2]].sheet,
           overview_basis(OverviewRequests[last.arg[2]].basis),
           OverviewRequests[last.arg[2]].period_end, OverviewRequests[last.arg[2]].year)

LastHadEntry == LastCacheKey \in DOMAIN last.cache_before

\* the last overview request found an entry whose modification time is not
\* the workbook's
LastEntryStale ==
  /\ last.op = "overview" /\ uploads # None
  /\ LastHadEntry
  /\ last.cache_before[LastCacheKey].mtime # uploads[1].mtime

\* C8: an entry is served only for the identical key and the workbook's
\* current modification time; after the modification time has advanced the
\* next query with that key recomputes, and replaces the entry when the
\* computation returns, while a computation that raises leaves the stale
\* entry in place, unserved
C8_CacheByMtime ==
  /\ (last.op = "overview" /\ last.hit) =>
       /\ uploads # None
       /\ LastHadEntry
       /\ last.cache_before[LastCacheKey].mtime = uploads[1].mtime
       /\ last.data = Some(last.cache_before[LastCacheKey].data)
       /\ _OVERVIEW_CACHE = last.cache_before
  /\ LastEntryStale =>
       /\ ~last.hit
       /\ IF last.status = 200 /\ last.arg[3] = 0
          THEN /\ _OVERVIEW_CACHE[LastCacheKey]
                    = [mtime |-> uploads[1].mtime, data |-> last.data[1]]
               /\ last.data[1] = LocalOverviews[uploads[1].book][last.arg[2]].data
          ELSE _OVERVIEW_CACHE = last.cache_before

C8_Witness ==
  /\ LastEntryStale
  /\ last.status = 200 /\ last.arg[3] = 0
  /\ last.data[1] # last.cache_before[LastCacheKey].data

\* C8 as the specification states it: once the modification time has
\* advanced, the next query with the key replaces the entry
C8_AlwaysReplaced ==
  /\ (last.op = "overview" /\ last.hit) =>
       /\ LastHadEntry
       /\ last.cache_before[LastCacheKey].mtime = uploads[1].mtime
  /\ LastEntryStale =>
       /\ ~last.hit
       /\ _OVERVIEW_CACHE[LastCacheKey].mtime = uploads[1].mtime

(***************************************************************************)
(* The end-to-end scenario                                                 *)
(***************************************************************************)
\* the last request ingested the grid of the scenario into an empty store
ClaimGridIngested ==
  /\ last.op = "upload" /\ last.arg = <<"upload", 1, 1>> /\ last.before = {}

\* C9 as the specification states it: the grid with the label row
\* ["Ending Balance", "", ""] is ingested into the records 2024-01-31 with
\* ending 1000 and 2024-02-29 with ending 1100, and the query over them
\* returns 1000, 1100, moic 1.1 and roi_pct 10.0
C9_EndToEnd ==
  ClaimGridIngested =>
    /\ {<<r.as_of_date, r.ending_balance>> : r \in store}
         = {<<date(2024, 1, 31), Some(1000)>>, <<date(2024, 2, 29), Some(1100)>>}
    /\ \E a \in {overview_from_db(store, DefaultSheet, <<>>)} :
         /\ a.initial_value = Some(1000) /\ a.current_value = Some(1100)
         /\ a.moic = Some(<<11, 10>>) /\ a.roi_pct = Some(<<10, 1>>)

(***************************************************************************)
(* Properties of the window resolver                                       *)
(***************************************************************************)
\* C10: the end of the window is never later than the latest available date
C10_EndClamped == win.called => win.end <= SetMax(win.dates)

C10_Witness ==
  /\ win.called /\ win.year = None /\ win.period_end = Some(<<"2","0","2","4","-","0","6","-","1","5">>)
  /\ win.basis = <<"y","t","d">>
  /\ win.end = SetMax(win.dates)

\* the basis as _bounds_for_basis reads it
WinBasis == IF win.basis = <<>> THEN <<"i","n","c","e","p","t","i","o","n">> ELSE lower(win.basis)

\* C11 as the specification states it: for basis ytd the start is January 1
\* of the year of the returned end
C11_YtdStart ==
  (win.called /\ WinBasis = <<"y","t","d">>) => win.start = date(Year(win.end), 1, 1)

\* C12 as the specification states it: for the bases month and day the
\* returned start is the returned end
C12_SinglePoint ==
  (win.called /\ WinBasis \in {<<"m","o","n","t","h">>, <<"d","a","y">>}) => win.start = win.end

\* C13 as the specification states it: basis latest gives the window of basis
\* month at the most recent available date, whatever period-end or year
\* comes with the request
C13_LatestIsMonthAtLatest ==
  (win.called /\ WinBasis = <<"l","a","t","e","s","t">>) =>
    /\ win.start = SetMax(win.dates)
    /\ win.end = SetMax(win.dates)
    /\ [start |-> win.start, end |-> win.end]
         = _bounds_for_basis(win.dates, <<"m","o","n","t","h">>, None, None)

\* the year and period-end arguments a request supplies
YearGiven == win.year # None /\ win.year[1] # <<>>

PeriodEndGiven == win.period_end # None /\ win.period_end[1] # <<>>

PeriodEndText == IF win.period_end = None THEN <<>> ELSE strip(win.period_end[1])

\* the available dates of the year the year argument names
YearMatch ==
  {d \in win.dates : YearGiven /\ pyint(strip(win.year[1])) = Some(Year(d))}

\* the available dates that match the period-end text by year, or by year
\* and month
PeriodMatch ==
  {d \in win.dates :
     /\ PeriodEndGiven
     /\ IF Len(PeriodEndText) = 7 /\ PeriodEndText[5] = "-"
        THEN /\ pyint(SubSeq(PeriodEndText, 1, 4)) = Some(Year(d))
             /\ pyint(SubSeq(PeriodEndText, 6, 7)) = Some(Month(d))
        ELSE IF IsYear(PeriodEndText) THEN pyint(PeriodEndText) = Some(Year(d))
        ELSE /\ fromisoformat(PeriodEndText) # None
             /\ Year(fromisoformat(PeriodEndText)[1]) = Year(d)
             /\ Month(fromisoformat(PeriodEndText)[1]) = Month(d)}

C15_InvalidPeriodFails ==
  win.called =>
    /\ YearGiven => YearMatch # {}
    /\ PeriodEndGiven => PeriodMatch # {}

(***************************************************************************)
(* Properties of the values picked for a window                            *)
(***************************************************************************)
\* the available dates of the month of the window's end, and those of
\* earlier months
EndMonthDates ==
  {d \in win.dates : Year(d) = Year(win.end) /\ Month(d) = Month(win.end)}

EarlierMonthDates == {d \in win.dates : d < date(Year(win.end), Month(win.end), 1)}

\* C16 as the specification states it: for the month basis the current value
\* is the ending total of the end's month and, the map having no beginning
\* values, the initial value is the ending total of the previous calendar
\* month or, when that month is absent, of the nearest earlier month; over
\* January to June 2024 with period_end 2024-03 the end is 2024-03-31
C16_MonthBasis ==
  (win.called /\ EffBasis(win.basis) = <<"m","o","n","t","h">> /\ EndMonthDates # {}) =>
    /\ win.ok
    /\ win.current_value = EndingTotals[SetMax(EndMonthDates)]
    /\ EarlierMonthDates # {}
         => win.initial_value = EndingTotals[SetMax(EarlierMonthDates)]
    /\ (win.dates = HalfYear /\ ~YearGiven /\ win.period_end = Some(<<"2","0","2","4","-","0","3">>))
         => /\ win.end = date(2024, 3, 31)
            /\ win.current_value = EndingTotals[date(2024, 3, 31)]
            /\ win.initial_value = EndingTotals[date(2024, 2, 29)]

(***************************************************************************)
(* Properties of the metrics                                               *)
(***************************************************************************)
\* the ratio q is n / d
IsQuotient(q, n, d) == q[1] * d = n * q[2]

\* the ratio q is n / d rounded to a multiple of 1 / scale
IsRounded(q, n, d, scale) ==
  /\ scale % q[2] = 0
  /\ Abs(q[1] * d - n * q[2]) * 2 * scale <= Abs(q[2] * d)

\* both metrics are null
BothNull(m) == m.moic = None /\ m.roi_pct = None

C18_IrrNull ==
  (win.called /\ win.ok) =>
    /\ (win.end - win.start <= 0 \/ win.initial_value <= 0)
         => win.local.irr_pct = None /\ win.live.irr_pct = None
    /\ win.initial_value # 0 =>
         /\ win.local.moic # None /\ win.local.roi_pct # None
         /\ win.live.moic # None /\ win.live.roi_pct # None
    /\ (win.end - win.start > 0 /\ win.initial_value > 0)
         => win.local.irr_pct # None /\ win.live.irr_pct # None

C18_Witness ==
  /\ win.called /\ win.ok
  /\ win.initial_value < 0 /\ win.end - win.start > 0
  /\ win.local.irr_pct = None /\ win.local.moic # None /\ win.local.roi_pct # None

(***************************************************************************)
(* Properties of the header-row search                                     *)
(***************************************************************************)
ProbeScan == 1..Len(probe.values)

\* the number of cells of row r that each copy reads as a date
ExcelDateCells(r) == Cardinality(DOMAIN excel_row_dates(probe.values, r))

MetricsDateCells(r) == Cardinality(DOMAIN metrics_row_dates(probe.values, r))

\* the number of cells of row r that each copy reads as a date between
\* 2000-01-01 and 31 days from now
ExcelSaneCells(r) ==
  Cardinality({c \in DOMAIN excel_row_dates(probe.values, r) :
                 _is_sane_date(Some(excel_row_dates(probe.values, r)[c]))})

MetricsSaneCells(r) ==
  Cardinality({c \in DOMAIN metrics_row_dates(probe.values, r) :
                 _is_sane_date(Some(metrics_row_dates(probe.values, r)[c]))})

\* C19 as the specification states it: a row is a candidate exactly when two
\* of its cells are sane dates, so the header row returned is such a row, one
\* is returned whenever such a row exists, and a row whose date-like cells
\* are stray numbers is not returned
C19_SaneHeaderRow ==
  probe.called =>
    /\ probe.excel # 0 => ExcelSaneCells(probe.excel) >= MinDateCells
    /\ probe.metrics # 0 => MetricsSaneCells(probe.metrics) >= MinDateCells
    /\ probe.excel = 0 => \A r \in ProbeScan : ExcelSaneCells(r) < MinDateCells
    /\ probe.metrics = 0 => \A r \in ProbeScan : MetricsSaneCells(r) < MinDateCells

\* the row that C20 describes, given the number of date cells of each row
HeaderChoice(cells, chosen) ==
  IF \A r \in ProbeScan : cells[r] < MinDateCells THEN chosen = 0
  ELSE /\ chosen \in ProbeScan /\ cells[chosen] >= MinDateCells
       /\ IF probe.anchor_row # 0
             /\ \E r \in ProbeScan : cells[r] >= MinDateCells /\ r <= probe.anchor_row
          THEN /\ chosen <= probe.anchor_row
               /\ \A r \in ProbeScan :
                    (cells[r] >= MinDateCells /\ r <= probe.anchor_row)
                      => probe.anchor_row - chosen <= probe.anchor_row - r
          ELSE \A r \in ProbeScan :
                 cells[r] >= MinDateCells
                   => \/ cells[r] < cells[chosen]
                      \/ (cells[r] = cells[chosen] /\ chosen <= r)

\* C20: with an anchor, the header row is the candidate at or above the
\* anchor that is nearest to it; without an anchor, or with no candidate at or
\* above it, the candidate with the most date cells, the topmost on a tie
C20_HeaderSelection ==
  probe.called =>
    /\ HeaderChoice([r \in ProbeScan |-> ExcelDateCells(r)], probe.excel)
    /\ HeaderChoice([r \in ProbeScan |-> MetricsDateCells(r)], probe.metrics)

C20_Witness ==
  /\ probe.called /\ probe.anchor_row # 0
  /\ probe.excel # 0 /\ probe.excel <= probe.anchor_row
  /\ \E r \in ProbeScan :
       /\ r < probe.excel
       /\ ExcelDateCells(r) > ExcelDateCells(probe.excel)
  /\ \E r \in ProbeScan : r > probe.anchor_row /\ ExcelDateCells(r) >= MinDateCells

(***************************************************************************)
(* Properties of the errors                                                *)
(***************************************************************************)
\* no cell of the grid holds an ending-balance label: neither the text
\* "ending balance" nor a pattern of the Ending Balance aliases
NoEndingLabel(values) ==
  \A r \in 1..Len(values) : \A c \in 1..Len(values[r]) :
     \/ values[r][c].k = "none"
     \/ /\ ~Contains(<<"e","n","d","i","n","g"," ","b","a","l","a","n","c","e">>, lower(pystr(values[r][c])))
        /\ metrics_clean_txt(pystr(values[r][c])) \notin metrics_LABEL_ALIASES.ending

\* the worksheet the last ingestion read
LastIngestSheet ==
  IF last.op = "upload" THEN UploadBooks[UploadRequests[last.arg[2]].book][last.arg[3]]
  ELSE RemoteBooks[SharePointRequests[last.arg[2]].book][last.arg[3]]

\* the last request ran the period totals pipeline on a worksheet
LastRanTotals ==
  \/ last.op = "upload"
       /\ UploadPlans[UploadRequests[last.arg[2]].book][last.arg[3]].looks_balance
  \/ last.op = "sharepoint" /\ last.arg[3] # 0

\* C21 as the specification states it: an ingestion of a grid without an
\* ending-balance label fails and writes no record
C21_EndingMandatory ==
  (LastRanTotals /\ NoEndingLabel(LastIngestSheet.values)) =>
    /\ ~last.ok
    /\ last.written = <<>>
    /\ store = last.before

\* the sheet field of the last ingestion request and the worksheet names of
\* its workbook
LastRequestedSheet ==
  IF last.op = "upload" THEN strip(UploadRequests[last.arg[2]].sheet)
  ELSE SharePointRequests[last.arg[2]].sheet

LastSheetNames ==
  IF last.op = "upload" THEN SheetNames(UploadBooks[UploadRequests[last.arg[2]].book])
  ELSE SheetNames(RemoteBooks[SharePointRequests[last.arg[2]].book])

\* the last ingestion asked for a sheet that the workbook does not have
LastSheetUnknown ==
  /\ last.op \in {"upload", "sharepoint"}
  /\ LastRequestedSheet # <<>>
  /\ \A i \in 1..Len(LastSheetNames) : LastSheetNames[i] # LastRequestedSheet

\* C22 as the specification states it: an ingestion that asks for a sheet the
\* workbook does not have fails, reads no other sheet and writes nothing
C22_SheetNotFound ==
  LastSheetUnknown =>
    /\ ~last.ok
    /\ last.sheet = LastRequestedSheet
    /\ last.written = <<>>
    /\ store = last.before

(***************************************************************************)
(* Properties of the aggregation                                           *)
(***************************************************************************)
\* the rows strictly below the label row and strictly above the stop row
AggBetween ==
  {r \in 1..Len(agg.values) :
     /\ r > agg.start_label_row_1b
     /\ (agg.stop_row_1b = 0 \/ r < agg.stop_row_1b)}

\* the text of a cell as the aggregation normalizes it
AggText(cell) == _clean_txt(IF cell.k = "none" THEN <<>> ELSE pystr(cell))

\* the row has a non-empty name or identifier cell
AggDataRow(r) ==
  \/ AggText(CellAt(RowAt(agg.values, r), NameCol)) # <<>>
  \/ AggText(CellAt(RowAt(agg.values, r), IdCol)) # <<>>

\* the amount of the row in the column of the call, None when it is not numeric
AggAmount(r) == _to_float_cell(CellAt(RowAt(agg.values, r), agg.date_col_1b))

\* the rows the code accumulates: data rows whose name is not a subtotal text
\* and whose amount is numeric
AggAccumulated ==
  {r \in AggBetween :
     /\ AggDataRow(r)
     /\ AggText(CellAt(RowAt(agg.values, r), NameCol)) \notin FORBIDDEN
     /\ AggAmount(r) # None}

\* the rows C24 describes: data rows neither of whose name and identifier
\* cells is a subtotal text, with a numeric amount
AggContributing ==
  {r \in AggBetween :
     /\ AggDataRow(r)
     /\ AggText(CellAt(RowAt(agg.values, r), NameCol)) \notin FORBIDDEN
     /\ AggText(CellAt(RowAt(agg.values, r), IdCol)) \notin FORBIDDEN
     /\ AggAmount(r) # None}

RECURSIVE AggSum(_)
AggSum(S) == IF S = {} THEN 0 ELSE AggAmount(SetMin(S))[1] + AggSum(S \ {SetMin(S)})

\* C23: the aggregation returns null exactly when it accumulated no numeric
\* cell, and the sum of the accumulated cells otherwise, also when that sum is 0
C23_NullIffNothing ==
  agg.called =>
    /\ agg.total = None <=> AggAccumulated = {}
    /\ AggAccumulated # {} => agg.total = Some(AggSum(AggAccumulated))

C23_Witness ==
  /\ agg.called
  /\ Cardinality(AggAccumulated) = 2
  /\ agg.total = Some(0)

\* C24 as the specification states it: the aggregate is the sum over the data
\* rows between the label row and the stop row, and a row whose name or
\* identifier cell is a subtotal text adds nothing to it
C24_RowsSummed ==
  agg.called =>
    agg.total = IF AggContributing = {} THEN None ELSE Some(AggSum(AggContributing))

(***************************************************************************)
(* Properties of the metric of a column                                    *)
(***************************************************************************)
LabelWindow == 12

\* the distance of row r from the header row of the call
LabDistance(r) == Abs(r - lab.header_row_1b)

\* the metric each copy reads in the cell of row r alone
ExcelLabelAt(r) == excel_metric_at(lab.values, r, lab.col_1b)
MetricsLabelAt(r) == metrics_metric_search(lab.values, r, lab.col_1b, r)

\* the result that C25 describes, given the metric of each row: the metric of
\* a classifying row nearest to the header row within the window, None when
\* no row of the window classifies
NearestLabel(at, result) ==
  IF \A r \in 1..Len(lab.values) : LabDistance(r) > LabelWindow \/ at[r] = None
  THEN result = None
  ELSE \E r \in 1..Len(lab.values) :
         /\ LabDistance(r) <= LabelWindow /\ at[r] # None
         /\ result = at[r]
         /\ \A r2 \in 1..Len(lab.values) :
              (LabDistance(r2) <= LabelWindow /\ at[r2] # None)
                => LabDistance(r) <= LabDistance(r2)

\* C25 as the specification states it: both copies of _metric_for_column
\* return the metric of the classifying cell nearest to the header row among
\* the rows header_row-12 .. header_row+12, above or below, and None exactly
\* when no cell of that window classifies
C25_NearestLabel ==
  lab.called =>
    /\ NearestLabel([r \in 1..Len(lab.values) |-> ExcelLabelAt(r)], lab.excel)
    /\ NearestLabel([r \in 1..Len(lab.values) |-> MetricsLabelAt(r)], lab.metrics)

\* the part of C25 that the copy of excel_routes.py meets
ExcelNearestLabel ==
  lab.called =>
    NearestLabel([r \in 1..Len(lab.values) |-> ExcelLabelAt(r)], lab.excel)

(***************************************************************************)
(* Properties of the column loop of the ingestion                          *)
(***************************************************************************)
\* the columns that resolve to metric m and month-end d, for a metric whose
\* label row was found; h is the header row with its date columns
ColumnsOf(values, h, m, d) ==
  {c \in DOMAIN h.cols :
     /\ MonthEnd(h.cols[c]) = d
     /\ excel_metric_for_column(values, h.hdr, c) = Some(m)
     /\ _find_label(values, LabelText[m]) # 0}

\* the aggregate of metric m in column c
ColumnValue(values, m, c) ==
  _sum_investor_rows_ignore_total(values, _find_label(values, LabelText[m]), c,
    _next_metric_label_below(_find_label(values, LabelText[m]),
      [i \in 1..Len(MetricOrder) |-> _find_label(values, LabelText[MetricOrder[i]])]))

\* per month-end and metric: the columns, and the aggregates of the leftmost
\* and of the rightmost of them
ColumnTotals_h(values, h) ==
  [d \in {MonthEnd(h.cols[c]) : c \in DOMAIN h.cols} |->
     [m \in DOMAIN EmptyRec |->
        [columns |-> ColumnsOf(values, h, m, d),
         leftmost |-> IF ColumnsOf(values, h, m, d) = {} THEN None
                      ELSE ColumnValue(values, m, SetMin(ColumnsOf(values, h, m, d))),
         rightmost |-> IF ColumnsOf(values, h, m, d) = {} THEN None
                       ELSE ColumnValue(values, m, SetMax(ColumnsOf(values, h, m, d)))]]]

ColumnTotals(values) ==
  ColumnTotals_h(values,
    excel_find_header_row_and_date_columns(values, AnchorScanRows,
      IF EndingAnchorRow(values) # 0 THEN EndingAnchorRow(values) ELSE AnchorScanRows))

\* the same for every worksheet of the uploaded workbooks
UploadColumnTotals ==
  Tabulate([b \in 1..Len(UploadBooks) |->
              Tabulate([t \in 1..Len(UploadBooks[b]) |->
                          ColumnTotals(UploadBooks[b][t].values)])])

LastColumnTotals == UploadColumnTotals[UploadRequests[last.arg[2]].book][last.arg[3]]

DatesToEnd == {d \in win.dates : d <= win.end}

\* C27 as the specification states it: for basis inception over totals
\* without beginning values, the initial value is the ending total at the
\* earliest available date and the current value the ending total at the
\* latest available date not after the end
C27_InceptionValues ==
  (win.called /\ win.ok /\ WinBasis = <<"i","n","c","e","p","t","i","o","n">> /\ DatesToEnd # {}) =>
    /\ win.initial_value = EndingTotals[SetMin(win.dates)]
    /\ win.current_value = EndingTotals[SetMax(DatesToEnd)]

\* the part of C27 about the current value
InceptionCurrentValue ==
  (win.called /\ win.ok /\ WinBasis = <<"i","n","c","e","p","t","i","o","n">> /\ DatesToEnd # {}) =>
    win.current_value = EndingTotals[SetMax(DatesToEnd)]

(***************************************************************************)
(* Properties of a failed ingestion                                        *)
(***************************************************************************)
\* session s ends in this step
Ends(s) == tx[s].state = "open" /\ tx'[s].state = "idle"

\* after the step, the store holds the values of every statement that
\* session s ran, the last one on each key
HoldsStatementsOf(s) ==
  \A i \in 1..Len(tx[s].done) :
    (\A j \in (i + 1)..Len(tx[s].done) : KeyOf(tx[s].done[j]) # KeyOf(tx[s].done[i]))
      => \E r \in store' : /\ KeyOf(r) = KeyOf(tx[s].done[i])
                           /\ SameFinancials(r, tx[s].done[i])

\* C28: the store changes only at the commit of a request that ran all its
\* statements, and then holds all of them; a request that ends before, on a
\* structural error or an exception, leaves every record as it was
C28_AllOrNothing ==
  [][/\ store' # store
          => \E s \in Sessions : Ends(s) /\ tx[s].stmts = <<>> /\ HoldsStatementsOf(s)
     /\ \A s \in Sessions : (Ends(s) /\ tx[s].stmts # <<>>) => store' = store]_vars

\* an upload that ran the first of its two statements on a stored key, with
\* other values, has failed: the store is as it was before
C28_Witness ==
  /\ last.op = "abort" /\ last.arg[3] = "upload"
  /\ Len(last.written) = 1
  /\ store = last.before
  /\ \E r \in store : /\ KeyOf(r) = KeyOf(last.written[1])
                      /\ ~SameFinancials(r, last.written[1])

(***************************************************************************)
(* Properties of the window as a whole                                     *)
(***************************************************************************)
\* C29 as the specification states it: the window lies within the available
\* dates and its start is not after its end
C29_WindowOrdered ==
  win.called =>
    /\ SetMin(win.dates) <= win.start
    /\ win.start <= win.end
    /\ win.end <= SetMax(win.dates)

(***************************************************************************)
(* Properties of the source field                                          *)
(***************************************************************************)
\* C30 as the specification states it: after a write of one of the three
\* writers, the source of every record it wrote names that writer
C30_SourceNamesWriter ==
  (last.op \in {"upload", "sharepoint", "overview"} /\ last.written # <<>>) =>
    \A i \in 1..Len(last.written) :
      \E r \in store : /\ KeyOf(r) = KeyOf(last.written[i])
                       /\ r.source = last.written[i].source
====
